---- MODULE Spec2Model ----
(***************************************************************************)
(* The batching subsystem of the weaviate python client                    *)
(* (weaviate.batch.crud_batch.Batch and its two BatchRequest containers),  *)
(* as exercised by src/test/batch/test_crud_batch.py.                      *)
(*                                                                         *)
(* Every public method of Batch is one action.  A method is an operator    *)
(* that maps a run record r (the instance's fields in r.b, plus what the   *)
(* call has done so far: posts made, checks run, exception raised) to the  *)
(* run record at its return.  The network is an input: a script gives the  *)
(* outcome of every post attempt of one submission.                        *)
(***************************************************************************)
EXTENDS Integers, Sequences, FiniteSets, TLC

(* ------------------------------ bounds -------------------------------- *)

\* items enqueued in one behaviour
MaxItems == 2
\* largest batch_size assigned
MaxBatch == 2
\* largest timeout_retries assigned through the setter / configure
MaxRetries == 1
\* largest recommended count a change of creation_time may produce
MaxRecommended == 8
\* largest timeout_retries of the wire-submission specification
MaxWireRetries == 3
\* with_* calls made on one AggregateBuilder
MaxCalls == 4

(* --------------------------- python values ---------------------------- *)

PyNone == [t |-> "NoneType", v |-> 0]
PyInt(n) == [t |-> "int", v |-> n]
PyFloat(n) == [t |-> "float", v |-> n]
PyBool(x) == [t |-> "bool", v |-> IF x THEN 1 ELSE 0]
PyStr == [t |-> "str", v |-> 0]
PyList(s) == [t |-> "list", v |-> s]
PyJson(s) == [t |-> "json", v |-> s]
PyFunction == [t |-> "function", v |-> 0]

\* Batch._batching_type is None, 'fixed' or 'dynamic'
NoBatching == "None"

\* values the creation_time of the model takes, and elapsed seconds of a post
CreationTimes == {5, 10}
Elapsed == {10, 25}
StatusCodes == {200, 204}

(* ------------------------------- state -------------------------------- *)

VARIABLES
    objects,                      \* Batch._objects_batch: sequence of item ids
    references,                   \* Batch._reference_batch
    batch_size,                   \* PyNone or PyInt(n)
    batching_type,                \* NoBatching, "fixed", "dynamic"
    recommended_num_objects,      \* PyNone or PyInt(n)
    recommended_num_references,   \* PyNone or PyInt(n)
    creation_time,                \* a positive number
    timeout_retries,              \* a natural number
    callback,                     \* PyNone or PyFunction
    next_id,                      \* id of the next item enqueued
    in_scope,                     \* inside a `with batch as b:` block
    ev,                           \* what the last call did (its run record without b)
    callers,                      \* calls in progress on a shared instance
    builder,                      \* an AggregateBuilder and the calls made on it
    log                           \* what became of the items enqueued so far

vars == <<objects, references, batch_size, batching_type,
          recommended_num_objects, recommended_num_references,
          creation_time, timeout_retries, callback, next_id, in_scope, ev,
          callers, builder, log>>

\* the instance's fields as one record
Self ==
    [objects |-> objects, references |-> references,
     batch_size |-> batch_size, batching_type |-> batching_type,
     recommended_num_objects |-> recommended_num_objects,
     recommended_num_references |-> recommended_num_references,
     creation_time |-> creation_time, timeout_retries |-> timeout_retries,
     callback |-> callback]

\* Connection.timeout_config: (connect timeout, read timeout)
timeout_config == <<2, 100>>

\* the numbers a timeout message reports, none reported yet
NoReport == [timeout |-> 0, size |-> 0, target |-> 0]

\* the run record at the start of a call of method op
Start(op) ==
    [b |-> Self, op |-> op, exc |-> FALSE, data_type |-> "", script |-> <<>>,
     raised |-> "none", msg |-> "",
     posts |-> <<>>, auto |-> <<>>, flushes |-> 0, calls |-> <<>>,
     results |-> <<>>, cb |-> <<>>, ret |-> PyNone, arg |-> <<>>,
     responses |-> <<>>, gets |-> <<>>, delivered |-> <<>>, report |-> NoReport]

\* the same, the argument of the call kept with it
StartWith(op, value) == [Start(op) EXCEPT !.arg = <<value>>]

Raise(r, error, message) == [r EXCEPT !.raised = error, !.msg = message]

(* ------------------------------ network ------------------------------- *)

ReadTimeout == [kind |-> "ReadTimeout", status_code |-> 0, elapsed |-> 0]
ConnectionError == [kind |-> "ConnectionError", status_code |-> 0, elapsed |-> 0]
Response(code, secs) == [kind |-> "response", status_code |-> code, elapsed |-> secs]

\* what one post attempt can end in
Outcomes ==
    {ReadTimeout, ConnectionError} \cup {Response(c, e) : c \in StatusCodes, e \in Elapsed}

\* the outcomes that the wire submission tells apart
WireOutcomes ==
    {ReadTimeout, ConnectionError} \cup {Response(c, 10) : c \in StatusCodes}

\* what ends a submission: anything but a read timeout (one elapsed time for a
\* status that raises, the elapsed time is not read then)
Finals ==
    {ConnectionError} \cup {Response(200, e) : e \in Elapsed}
                      \cup {Response(c, 10) : c \in StatusCodes \ {200}}

Timeouts(k) == [i \in 1..k |-> ReadTimeout]

\* the scripts that tell apart every run of a submission made with `retries`:
\* k read timeouts and then a final outcome, or retries + 1 read timeouts
ScriptsFor(retries) ==
    {Timeouts(k) \o <<f>> : k \in 0..retries, f \in Finals} \cup {Timeouts(retries + 1)}

\* a network where every post is answered 200 at once
DryNet == [objects |-> <<Response(200, 10)>>, references |-> <<Response(200, 10)>>]

(* --------------------------- BatchRequest ----------------------------- *)

\* ObjectsBatchRequest.get_request_body / ReferenceBatchRequest.get_request_body:
\* {"fields": ["ALL"], "objects": [...]} for objects, the plain array for
\* references (written here as the same record with no "fields")
get_request_body(data_type, items) ==
    IF data_type = "objects"
    THEN [fields |-> <<"ALL">>, objects |-> items]
    ELSE [fields |-> <<>>, objects |-> items]

Path(data_type) ==
    IF data_type = "objects" THEN "/batch/objects" ELSE "/batch/references"

OperationName(data_type) ==
    IF data_type = "objects" THEN "Create objects in batch"
    ELSE "Create references in batch"

(* ----------------------------- validation ----------------------------- *)

\* isinstance(value, int) and not a bool
IsInt(value) == value.t = "int"
\* isinstance(value, Real) and not a bool
IsReal(value) == value.t \in {"int", "float"}

\* _check_positive_num(value, name, int): "ok", "TypeError" or "ValueError"
check_positive_int(value) ==
    IF ~IsInt(value) THEN "TypeError"
    ELSE IF value.v <= 0 THEN "ValueError" ELSE "ok"

\* _check_positive_num(value, name, Real)
check_positive_real(value) ==
    IF ~IsReal(value) THEN "TypeError"
    ELSE IF value.v <= 0 THEN "ValueError" ELSE "ok"

\* _check_non_negative(value, name, int)
check_non_negative_int(value) ==
    IF ~IsInt(value) THEN "TypeError"
    ELSE IF value.v < 0 THEN "ValueError" ELSE "ok"

\* (a variant: an int passes for a bool)
check_bool_accepts_int(value) ==
    IF value.t \in {"bool", "int"} THEN "ok" ELSE "TypeError"

\* _check_bool(value, name)
check_bool(value) == IF value.t = "bool" THEN "ok" ELSE "TypeError"

(* --------------------------- wire submission -------------------------- *)

\* the retry loop of Batch._create_data: one post per turn; a connection error
\* and an unexpected status end it at once, a read timeout ends it when
\* timeout_count has reached timeout_retries
\* (a variant: the loop also catches a connection error and retries it)
CaughtInLoopConnection(out) == out.kind \in {"ReadTimeout", "ConnectionError"}

\* (a variant: the loop also retries a response whose status is not 200)
CaughtInLoopStatus(out) ==
    \/ out.kind = "ReadTimeout"
    \/ out.kind = "response" /\ out.status_code # 200

\* the outcome of a post that the loop catches and may retry
CaughtInLoop(out) == out.kind = "ReadTimeout"

\* (a variant: one retry too few)
BudgetSpentEarly(timeout_count, retries) == timeout_count + 1 >= retries

\* (a variant: one retry too many)
BudgetSpentLate(timeout_count, retries) == timeout_count > retries

\* the caught timeout is raised again: the retries are used up
BudgetSpent(timeout_count, retries) == timeout_count >= retries

\* what leaves the loop as an exception, as _create_data raises it
Surfaced(r, out, data_type) ==
    IF out.kind = "ConnectionError"
    THEN Raise(r, "RequestsConnectionError", "Batch was not added to weaviate.")
    ELSE IF out.kind = "ReadTimeout"
    THEN Raise(r, "ReadTimeout", "The creation was cancelled")
    ELSE Raise(r, "UnexpectedStatusCodeException", OperationName(data_type))

\* the target duration a timeout message names ("less than 10s" on a Batch
\* with the default creation_time)
ReportedTarget(r) == r.b.creation_time

\* (a variant: the batch size reported is the configured batch_size)
TimeoutReportBatchSize(r, body) ==
    [timeout |-> timeout_config[2],
     size |-> IF r.b.batch_size.t = "int" THEN r.b.batch_size.v ELSE 0,
     target |-> ReportedTarget(r)]

\* the numbers in the message of the ReadTimeout that _create_data raises:
\* "... longer than the configured timeout of {timeout}s. Try reducing the
\* batch size (currently {size}) ... within less than {target}s"
TimeoutReport(r, body) ==
    [timeout |-> timeout_config[2],
     size |-> Len(body.objects),
     target |-> ReportedTarget(r)]

RECURSIVE post_loop(_, _, _, _, _)
post_loop(r, data_type, body, script, timeout_count) ==
    LET out == script[timeout_count + 1]
        r1 == [r EXCEPT !.posts =
                  Append(@, [path |-> Path(data_type), weaviate_object |-> body])]
    IN  IF CaughtInLoop(out)
        THEN IF BudgetSpent(timeout_count, r.b.timeout_retries)
             THEN [Surfaced(r1, out, data_type) EXCEPT !.report = TimeoutReport(r, body)]
             ELSE post_loop(r1, data_type, body, script, timeout_count + 1)
        ELSE IF out.kind = "response" /\ out.status_code = 200
        THEN [r1 EXCEPT !.ret = [t |-> "response", v |-> out],
                        !.responses = Append(@, out),
                        !.delivered = Append(@, [data_type |-> data_type,
                                                 items |-> body.objects])]
        ELSE Surfaced(r1, out, data_type)

\* Batch._create_data(data_type, batch_request)
create_data(r, data_type, items, script) ==
    post_loop(r, data_type, get_request_body(data_type, items), script, 0)

\* (a variant: rounded to the nearest integer)
RecommendedRounded(n, secs, target) == (2 * n * target + secs) \div (2 * secs)

\* the recommended count after n items took `secs` seconds
Recommended(n, secs, target) == (n * target) \div secs

\* (a variant: the container is emptied before it is submitted)
create_objects_clear_first(r, script) ==
    IF r.raised # "none" THEN r
    ELSE LET r0 == [r EXCEPT !.calls = Append(@, "create_objects")]
             n == Len(r.b.objects)
         IN  IF n # 0
             THEN LET r1 == create_data([r0 EXCEPT !.b.objects = <<>>],
                                        "objects", r.b.objects, script)
                  IN  IF r1.raised # "none" THEN r1
                      ELSE [r1 EXCEPT
                              !.b.recommended_num_objects =
                                  PyInt(Recommended(n, r1.ret.v.elapsed, r.b.creation_time)),
                              !.results = Append(@, PyJson(r.b.objects)),
                              !.ret = PyJson(r.b.objects)]
             ELSE [r0 EXCEPT !.results = Append(@, PyList(<<>>)),
                             !.ret = PyList(<<>>)]

\* (a variant: an empty container is submitted like any other)
create_objects_submits_empty(r, script) ==
    IF r.raised # "none" THEN r
    ELSE LET r0 == [r EXCEPT !.calls = Append(@, "create_objects")]
             r1 == create_data(r0, "objects", r.b.objects, script)
         IN  IF r1.raised # "none" THEN r1
             ELSE [r1 EXCEPT !.b.objects = <<>>,
                             !.results = Append(@, PyJson(r.b.objects)),
                             !.ret = PyJson(r.b.objects)]

\* (a variant: the recommended count is recomputed in 'dynamic' batching only)
create_objects_dynamic_only(r, script) ==
    IF r.raised # "none" THEN r
    ELSE LET r0 == [r EXCEPT !.calls = Append(@, "create_objects")]
             n == Len(r.b.objects)
         IN  IF n # 0
             THEN LET r1 == create_data(r0, "objects", r.b.objects, script)
                  IN  IF r1.raised # "none" THEN r1
                      ELSE [r1 EXCEPT
                              !.b.recommended_num_objects =
                                  IF r.b.batching_type = "dynamic"
                                  THEN PyInt(Recommended(n, r1.ret.v.elapsed,
                                                         r.b.creation_time))
                                  ELSE @,
                              !.b.objects = <<>>,
                              !.results = Append(@, PyJson(r.b.objects)),
                              !.ret = PyJson(r.b.objects)]
             ELSE [r0 EXCEPT !.results = Append(@, PyList(<<>>)),
                             !.ret = PyList(<<>>)]

\* (a variant: the response is returned as it came, not its JSON body)
create_objects_returns_response(r, script) ==
    IF r.raised # "none" THEN r
    ELSE LET r0 == [r EXCEPT !.calls = Append(@, "create_objects")]
             n == Len(r.b.objects)
         IN  IF n # 0
             THEN LET r1 == create_data(r0, "objects", r.b.objects, script)
                  IN  IF r1.raised # "none" THEN r1
                      ELSE [r1 EXCEPT
                              !.b.recommended_num_objects =
                                  PyInt(Recommended(n, r1.ret.v.elapsed, r.b.creation_time)),
                              !.b.objects = <<>>,
                              !.results = Append(@, r1.ret)]
             ELSE [r0 EXCEPT !.results = Append(@, PyList(<<>>)),
                             !.ret = PyList(<<>>)]

\* Batch.create_objects()
create_objects(r, script) ==
    IF r.raised # "none" THEN r
    ELSE LET r0 == [r EXCEPT !.calls = Append(@, "create_objects")]
             n == Len(r.b.objects)
         IN  IF n # 0
             THEN LET r1 == create_data(r0, "objects", r.b.objects, script)
                  IN  IF r1.raised # "none" THEN r1
                      ELSE [r1 EXCEPT
                              !.b.recommended_num_objects =
                                  PyInt(Recommended(n, r1.ret.v.elapsed, r.b.creation_time)),
                              !.b.objects = <<>>,
                              !.results = Append(@, PyJson(r.b.objects)),
                              !.ret = PyJson(r.b.objects)]
             ELSE [r0 EXCEPT !.results = Append(@, PyList(<<>>)),
                             !.ret = PyList(<<>>)]

\* (a variant: the container is not emptied after the submission)
create_references_keeps_items(r, script) ==
    IF r.raised # "none" THEN r
    ELSE LET r0 == [r EXCEPT !.calls = Append(@, "create_references")]
             n == Len(r.b.references)
         IN  IF n # 0
             THEN LET r1 == create_data(r0, "references", r.b.references, script)
                  IN  IF r1.raised # "none" THEN r1
                      ELSE [r1 EXCEPT
                              !.b.recommended_num_references =
                                  PyInt(Recommended(n, r1.ret.v.elapsed, r.b.creation_time)),
                              !.results = Append(@, PyJson(r.b.references)),
                              !.ret = PyJson(r.b.references)]
             ELSE [r0 EXCEPT !.results = Append(@, PyList(<<>>)),
                             !.ret = PyList(<<>>)]

\* Batch.create_references()
create_references(r, script) ==
    IF r.raised # "none" THEN r
    ELSE LET r0 == [r EXCEPT !.calls = Append(@, "create_references")]
             n == Len(r.b.references)
         IN  IF n # 0
             THEN LET r1 == create_data(r0, "references", r.b.references, script)
                  IN  IF r1.raised # "none" THEN r1
                      ELSE [r1 EXCEPT
                              !.b.recommended_num_references =
                                  PyInt(Recommended(n, r1.ret.v.elapsed, r.b.creation_time)),
                              !.b.references = <<>>,
                              !.results = Append(@, PyJson(r.b.references)),
                              !.ret = PyJson(r.b.references)]
             ELSE [r0 EXCEPT !.results = Append(@, PyList(<<>>)),
                             !.ret = PyList(<<>>)]

\* (a variant: the callback is not invoked with the result of an empty container)
flush_skips_empty_results(r, net) ==
    IF r.raised # "none" THEN r
    ELSE LET r1 == create_objects([r EXCEPT !.flushes = @ + 1], net.objects)
             r2 == create_references(r1, net.references)
         IN  IF r2.raised # "none" THEN r2
             ELSE IF r2.b.callback.t # "NoneType"
             THEN [r2 EXCEPT
                     !.cb = @ \o (IF r1.ret.t = "list" THEN <<>> ELSE <<r1.ret>>)
                              \o (IF r2.ret.t = "list" THEN <<>> ELSE <<r2.ret>>),
                     !.ret = PyNone]
             ELSE [r2 EXCEPT !.ret = PyNone]

\* (a variant: the callback is invoked with each result as soon as it is there)
flush_calls_back_each(r, net) ==
    IF r.raised # "none" THEN r
    ELSE LET r1 == create_objects([r EXCEPT !.flushes = @ + 1], net.objects)
             r1c == IF r1.raised = "none" /\ r1.b.callback.t # "NoneType"
                    THEN [r1 EXCEPT !.cb = Append(@, r1.ret)] ELSE r1
             r2 == create_references(r1c, net.references)
         IN  IF r2.raised # "none" THEN r2
             ELSE IF r2.b.callback.t # "NoneType"
             THEN [r2 EXCEPT !.cb = Append(@, r2.ret), !.ret = PyNone]
             ELSE [r2 EXCEPT !.ret = PyNone]

\* Batch.flush()
flush(r, net) ==
    IF r.raised # "none" THEN r
    ELSE LET r1 == create_objects([r EXCEPT !.flushes = @ + 1], net.objects)
             r2 == create_references(r1, net.references)
         IN  IF r2.raised # "none" THEN r2
             ELSE IF r2.b.callback.t # "NoneType"
             THEN [r2 EXCEPT !.cb = @ \o <<r1.ret, r2.ret>>, !.ret = PyNone]
             ELSE [r2 EXCEPT !.ret = PyNone]

\* (a variant: each container is compared to batch_size on its own)
FixedFullEach(b) ==
    \/ Len(b.objects) >= b.batch_size.v
    \/ Len(b.references) >= b.batch_size.v

\* (a variant: the flush waits for more than batch_size items)
FixedFullAbove(b) == Len(b.objects) + Len(b.references) > b.batch_size.v

\* the flush condition of Batch._auto_create in 'fixed' batching
FixedFull(b) == Len(b.objects) + Len(b.references) >= b.batch_size.v

\* (a variant: the two counts are added, as in 'fixed' batching)
DynamicFullSum(b) ==
    Len(b.objects) + Len(b.references) >= b.recommended_num_objects.v

\* the flush condition of Batch._auto_create in 'dynamic' batching
DynamicFull(b) ==
    \/ Len(b.objects) >= b.recommended_num_objects.v
    \/ Len(b.references) >= b.recommended_num_references.v

\* what a run of the check saw
Checked(b) ==
    [batching_type |-> b.batching_type,
     num_objects |-> Len(b.objects), num_references |-> Len(b.references),
     batch_size |-> b.batch_size,
     recommended_num_objects |-> b.recommended_num_objects,
     recommended_num_references |-> b.recommended_num_references]

\* Batch._auto_create()
auto_create(r, net) ==
    IF r.raised # "none" THEN r
    ELSE LET r1 == [r EXCEPT !.auto = Append(@, Checked(r.b))]
         IN  IF r.b.batching_type = "fixed"
             THEN IF FixedFull(r.b) THEN flush(r1, net) ELSE r1
             ELSE IF r.b.batching_type = "dynamic"
             THEN IF \/ r.b.recommended_num_objects.t = "NoneType"
                     \/ r.b.recommended_num_references.t = "NoneType"
                  THEN Raise(r1, "TypeError", "'>=' not supported")
                  ELSE IF DynamicFull(r.b) THEN flush(r1, net) ELSE r1
             ELSE Raise(r1, "ValueError", "Unsupported batching type")

(* ------------------------------ enqueue ------------------------------- *)

\* (a variant: the check runs whatever the batching type)
add_data_object_always_checks(r, item, net) ==
    auto_create([r EXCEPT !.b.objects = Append(@, item)], net)

\* (a variant: the item is taken back when the check raises)
add_data_object_rolls_back(r, item, net) ==
    LET r1 == [r EXCEPT !.b.objects = Append(@, item)]
        r2 == IF r1.b.batching_type # NoBatching THEN auto_create(r1, net) ELSE r1
    IN  IF r2.raised # "none" /\ r2.b.objects # <<>>
        THEN [r2 EXCEPT !.b.objects = SubSeq(@, 1, Len(@) - 1)]
        ELSE r2

\* Batch.add_data_object(data_object, class_name, uuid, vector)
add_data_object(r, item, net) ==
    LET r1 == [r EXCEPT !.b.objects = Append(@, item)]
    IN  IF r1.b.batching_type # NoBatching THEN auto_create(r1, net) ELSE r1

\* Batch.add_reference(from_object_uuid, from_object_class_name,
\*                     from_property_name, to_object_uuid)
add_reference(r, item, net) ==
    LET r1 == [r EXCEPT !.b.references = Append(@, item)]
    IN  IF r1.b.batching_type # NoBatching THEN auto_create(r1, net) ELSE r1

(* --------------------------- configuration ---------------------------- *)

\* a recommended count that is None becomes `value`
FillUnset(count, value) == IF count.t = "NoneType" THEN value ELSE count

\* a recommended count that is not None is rescaled by new / old
Rescale(count, new, old) ==
    IF count.t = "NoneType" THEN count ELSE PyInt((count.v * new) \div old)

\* (a variant: None clears batch_size and leaves the batching type)
set_batch_size_keeps_type(r, value, net) ==
    IF value.t = "NoneType"
    THEN [r EXCEPT !.b.batch_size = PyNone]
    ELSE IF check_positive_int(value) # "ok"
    THEN Raise(r, check_positive_int(value), "'batch_size'")
    ELSE auto_create(
           [r EXCEPT
              !.b.batch_size = value,
              !.b.batching_type = IF @ = NoBatching THEN "fixed" ELSE @,
              !.b.recommended_num_objects = FillUnset(@, value),
              !.b.recommended_num_references = FillUnset(@, value)],
           net)

\* (a variant: a positive batch size always selects 'fixed' batching)
set_batch_size_resets_type(r, value, net) ==
    IF value.t = "NoneType"
    THEN [r EXCEPT !.b.batch_size = PyNone, !.b.batching_type = NoBatching]
    ELSE IF check_positive_int(value) # "ok"
    THEN Raise(r, check_positive_int(value), "'batch_size'")
    ELSE auto_create(
           [r EXCEPT
              !.b.batch_size = value,
              !.b.batching_type = "fixed",
              !.b.recommended_num_objects = FillUnset(@, value),
              !.b.recommended_num_references = FillUnset(@, value)],
           net)

\* (a variant: both recommended counts take the new batch size)
set_batch_size_overwrites(r, value, net) ==
    IF value.t = "NoneType"
    THEN [r EXCEPT !.b.batch_size = PyNone, !.b.batching_type = NoBatching]
    ELSE IF check_positive_int(value) # "ok"
    THEN Raise(r, check_positive_int(value), "'batch_size'")
    ELSE auto_create(
           [r EXCEPT
              !.b.batch_size = value,
              !.b.batching_type = IF @ = NoBatching THEN "fixed" ELSE @,
              !.b.recommended_num_objects = value,
              !.b.recommended_num_references = value],
           net)

\* Batch.batch_size setter
set_batch_size(r, value, net) ==
    IF value.t = "NoneType"
    THEN [r EXCEPT !.b.batch_size = PyNone, !.b.batching_type = NoBatching]
    ELSE IF check_positive_int(value) # "ok"
    THEN Raise(r, check_positive_int(value), "'batch_size'")
    ELSE auto_create(
           [r EXCEPT
              !.b.batch_size = value,
              !.b.batching_type = IF @ = NoBatching THEN "fixed" ELSE @,
              !.b.recommended_num_objects = FillUnset(@, value),
              !.b.recommended_num_references = FillUnset(@, value)],
           net)

\* (a variant: enabling dynamic resets both recommended counts to batch_size)
dynamic_on_resets_counts(b) ==
    [b EXCEPT !.batching_type = "dynamic",
              !.recommended_num_objects = b.batch_size,
              !.recommended_num_references = b.batch_size]

\* the fields once dynamic batching is switched on: recommended counts that
\* are None take the batch size
dynamic_on(b) ==
    [b EXCEPT !.batching_type = "dynamic",
              !.recommended_num_objects = FillUnset(@, b.batch_size),
              !.recommended_num_references = FillUnset(@, b.batch_size)]

\* (a variant: the setter acts whatever the batching type)
set_dynamic_in_any_mode(r, value, net) ==
    IF check_bool(value) # "ok"
    THEN Raise(r, "TypeError", "'dynamic'")
    ELSE IF value.v = 1
    THEN auto_create([r EXCEPT !.b = dynamic_on(@)], net)
    ELSE auto_create([r EXCEPT !.b.batching_type = "fixed"], net)

\* Batch.dynamic setter
set_dynamic(r, value, net) ==
    IF r.b.batching_type = NoBatching THEN r
    ELSE IF check_bool(value) # "ok"
    THEN Raise(r, "TypeError", "'dynamic'")
    ELSE IF value.v = 1
    THEN auto_create([r EXCEPT !.b = dynamic_on(@)], net)
    ELSE auto_create([r EXCEPT !.b.batching_type = "fixed"], net)

\* Batch.dynamic getter
get_dynamic(b) == b.batching_type = "dynamic"

\* (a variant: the recommended counts are rescaled only while a batch size is set)
set_creation_time_rescales_when_batching(r, value, net) ==
    IF check_positive_real(value) # "ok"
    THEN Raise(r, check_positive_real(value), "'creation_time'")
    ELSE IF r.b.batching_type = NoBatching
    THEN [r EXCEPT !.b.creation_time = value.v]
    ELSE auto_create(
           [r EXCEPT
              !.b.recommended_num_references =
                  Rescale(@, value.v, r.b.creation_time),
              !.b.recommended_num_objects =
                  Rescale(@, value.v, r.b.creation_time),
              !.b.creation_time = value.v],
           net)

\* (a variant: the check runs whatever the batching type)
set_creation_time_always_checks(r, value, net) ==
    IF check_positive_real(value) # "ok"
    THEN Raise(r, check_positive_real(value), "'creation_time'")
    ELSE auto_create(
           [r EXCEPT
              !.b.recommended_num_references =
                  Rescale(@, value.v, r.b.creation_time),
              !.b.recommended_num_objects =
                  Rescale(@, value.v, r.b.creation_time),
              !.b.creation_time = value.v],
           net)

\* Batch.creation_time setter
set_creation_time(r, value, net) ==
    IF check_positive_real(value) # "ok"
    THEN Raise(r, check_positive_real(value), "'creation_time'")
    ELSE LET r1 == [r EXCEPT
                      !.b.recommended_num_references =
                          Rescale(@, value.v, r.b.creation_time),
                      !.b.recommended_num_objects =
                          Rescale(@, value.v, r.b.creation_time),
                      !.b.creation_time = value.v]
         IN  IF r1.b.batching_type # NoBatching THEN auto_create(r1, net) ELSE r1

\* (a variant: the value is stored before it is checked)
set_timeout_retries_assigns_first(r, value) ==
    LET r1 == [r EXCEPT !.b.timeout_retries = value.v]
    IN  IF check_non_negative_int(value) # "ok"
        THEN Raise(r1, check_non_negative_int(value), "'timeout_retries'")
        ELSE r1

\* Batch.timeout_retries setter
set_timeout_retries(r, value) ==
    IF check_non_negative_int(value) # "ok"
    THEN Raise(r, check_non_negative_int(value), "'timeout_retries'")
    ELSE [r EXCEPT !.b.timeout_retries = value.v]

\* the first check of Batch.configure that fails, "ok" when none does
configure_check(a) ==
    IF check_positive_real(a.creation_time) # "ok"
    THEN check_positive_real(a.creation_time)
    ELSE IF check_non_negative_int(a.timeout_retries) # "ok"
    THEN check_non_negative_int(a.timeout_retries)
    ELSE IF a.batch_size.t = "NoneType" THEN "ok"
    ELSE IF check_positive_int(a.batch_size) # "ok"
    THEN check_positive_int(a.batch_size)
    ELSE check_bool(a.dynamic)

\* (a variant: configure returns without the auto-flush check)
configure_without_check(r, a, net) ==
    IF configure_check(a) # "ok" THEN Raise(r, configure_check(a), "configure")
    ELSE LET r1 == [r EXCEPT
                      !.b.callback = a.callback,
                      !.b.timeout_retries = a.timeout_retries.v,
                      !.b.creation_time = a.creation_time.v]
         IN  IF a.batch_size.t = "NoneType"
             THEN [r1 EXCEPT !.b.batch_size = PyNone, !.b.batching_type = NoBatching,
                             !.ret = [t |-> "Batch", v |-> 0]]
             ELSE IF a.dynamic.v = 0
             THEN [r1 EXCEPT !.b.batch_size = a.batch_size,
                             !.b.batching_type = "fixed",
                             !.ret = [t |-> "Batch", v |-> 0]]
             ELSE [r1 EXCEPT !.b.batch_size = a.batch_size,
                             !.b.batching_type = "dynamic",
                             !.b.recommended_num_objects = a.batch_size,
                             !.b.recommended_num_references = a.batch_size,
                             !.ret = [t |-> "Batch", v |-> 0]]

\* (a variant: configure assigns each field through its setter)
configure_through_setters(r, a, net) ==
    IF configure_check(a) # "ok" THEN Raise(r, configure_check(a), "configure")
    ELSE LET r1 == set_creation_time([r EXCEPT !.b.callback = a.callback],
                                     a.creation_time, net)
             r2 == set_timeout_retries(r1, a.timeout_retries)
             r3 == set_batch_size([r2 EXCEPT !.auto = <<>>], a.batch_size, net)
             r4 == set_dynamic([r3 EXCEPT !.auto = <<>>], a.dynamic, net)
         IN  IF r4.raised # "none" THEN r4
             ELSE [r4 EXCEPT !.ret = [t |-> "Batch", v |-> 0]]

\* (a variant: callback, timeout_retries and creation_time are assigned before
\* batch_size and dynamic are looked at)
configure_assigns_early(r, a, net) ==
    IF check_positive_real(a.creation_time) # "ok"
    THEN Raise(r, check_positive_real(a.creation_time), "configure")
    ELSE IF check_non_negative_int(a.timeout_retries) # "ok"
    THEN Raise(r, check_non_negative_int(a.timeout_retries), "configure")
    ELSE LET r1 == [r EXCEPT
                      !.b.callback = a.callback,
                      !.b.timeout_retries = a.timeout_retries.v,
                      !.b.creation_time = a.creation_time.v]
         IN  IF a.batch_size.t = "NoneType"
             THEN [r1 EXCEPT !.b.batch_size = PyNone, !.b.batching_type = NoBatching,
                             !.ret = [t |-> "Batch", v |-> 0]]
             ELSE IF configure_check(a) # "ok"
             THEN Raise(r1, configure_check(a), "configure")
             ELSE LET r2 ==
                        IF a.dynamic.v = 0
                        THEN [r1 EXCEPT !.b.batch_size = a.batch_size,
                                        !.b.batching_type = "fixed"]
                        ELSE [r1 EXCEPT
                                !.b.batch_size = a.batch_size,
                                !.b.batching_type = "dynamic",
                                !.b.recommended_num_objects = a.batch_size,
                                !.b.recommended_num_references = a.batch_size]
                      r3 == auto_create(r2, net)
                  IN  IF r3.raised # "none" THEN r3
                      ELSE [r3 EXCEPT !.ret = [t |-> "Batch", v |-> 0]]

\* Batch.configure(batch_size, creation_time, timeout_retries, callback, dynamic),
\* which is Batch.__call__
configure(r, a, net) ==
    IF configure_check(a) # "ok" THEN Raise(r, configure_check(a), "configure")
    ELSE LET r1 == [r EXCEPT
                      !.b.callback = a.callback,
                      !.b.timeout_retries = a.timeout_retries.v,
                      !.b.creation_time = a.creation_time.v]
         IN  IF a.batch_size.t = "NoneType"
             THEN [r1 EXCEPT !.b.batch_size = PyNone, !.b.batching_type = NoBatching,
                             !.ret = [t |-> "Batch", v |-> 0]]
             ELSE LET r2 ==
                        IF a.dynamic.v = 0
                        THEN [r1 EXCEPT !.b.batch_size = a.batch_size,
                                        !.b.batching_type = "fixed"]
                        ELSE [r1 EXCEPT
                                !.b.batch_size = a.batch_size,
                                !.b.batching_type = "dynamic",
                                !.b.recommended_num_objects = a.batch_size,
                                !.b.recommended_num_references = a.batch_size]
                      r3 == auto_create(r2, net)
                  IN  IF r3.raised # "none" THEN r3
                      ELSE [r3 EXCEPT !.ret = [t |-> "Batch", v |-> 0]]

(* --------------------------- scoped session --------------------------- *)

\* Batch.__enter__(): returns self
enter(r) == [r EXCEPT !.ret = [t |-> "Batch", v |-> 0]]

\* (a variant: nothing is flushed when the block raised)
exit_only_on_success(r, exc, net) ==
    IF exc THEN [r EXCEPT !.exc = exc] ELSE flush([r EXCEPT !.exc = exc], net)

\* Batch.__exit__(exc_type, exc_value, traceback): flushes, whether or not the
\* block raised
exit(r, exc, net) == flush([r EXCEPT !.exc = exc], net)

(* ------------------------------- inputs ------------------------------- *)

BatchSizeArgs ==
    {PyNone, PyBool(FALSE), PyFloat(1)} \cup {PyInt(n) : n \in (0 - 1)..MaxBatch}
CreationTimeArgs ==
    {PyFloat(t) : t \in CreationTimes} \cup {PyFloat(0), PyInt(0 - 1), PyBool(TRUE), PyStr}
RetriesArgs == {PyInt(n) : n \in (0 - 1)..MaxRetries} \cup {PyStr, PyBool(TRUE)}
DynamicArgs == {PyBool(TRUE), PyBool(FALSE), PyInt(0)}
CallbackArgs == {PyNone, PyFunction}

\* the arguments that pass the checks of their setters
ValidBatchSize ==
    {PyNone} \cup {a \in BatchSizeArgs \ {PyNone} : check_positive_int(a) = "ok"}

\* the calls of configure: every argument valid, or one of them invalid
ConfigureArgs ==
    {a \in [batch_size : BatchSizeArgs, creation_time : CreationTimeArgs,
            timeout_retries : RetriesArgs, callback : CallbackArgs,
            dynamic : DynamicArgs] :
        Cardinality({f \in {"batch_size", "creation_time", "timeout_retries", "dynamic"} :
            \/ f = "batch_size" /\ a.batch_size \notin ValidBatchSize
            \/ f = "creation_time" /\ check_positive_real(a.creation_time) # "ok"
            \/ f = "timeout_retries" /\ check_non_negative_int(a.timeout_retries) # "ok"
            \/ f = "dynamic" /\ check_bool(a.dynamic) # "ok"}) <= 1}

Posted(r, data_type) == \E i \in 1..Len(r.posts) : r.posts[i].path = Path(data_type)

\* the networks that tell apart every run of a call, given its run against
\* DryNet: a script for each submission the call makes when every post
\* succeeds (it makes no other)
Nets(dry) ==
    {[objects |-> so, references |-> sr] :
        so \in IF Posted(dry, "objects")
               THEN ScriptsFor(dry.b.timeout_retries) ELSE {<<>>},
        sr \in IF Posted(dry, "references")
               THEN ScriptsFor(dry.b.timeout_retries) ELSE {<<>>}}

(* ------------------------------ actions ------------------------------- *)

\* AggregateBuilder("Object", None) after __init__, no call made on it
NewBuilder ==
    [self |-> [class_name |-> "Object", with_meta_count |-> FALSE, fields |-> <<>>,
               where |-> <<>>, group_by_properties |-> <<>>, uses_filter |-> FALSE],
     history |-> <<>>]

\* the callers that share one instance
Callers == {1, 2}

\* no call in progress: where each caller is in its call, the body it
\* submitted, and the items that reached the server
NoCallers ==
    [pc |-> [c \in Callers |-> "idle"], body |-> [c \in Callers |-> <<>>],
     sent |-> {}]

\* the call returns (or raises): the instance's fields and the record of the call
CommitFields(r) ==
    /\ objects' = r.b.objects
    /\ references' = r.b.references
    /\ batch_size' = r.b.batch_size
    /\ batching_type' = r.b.batching_type
    /\ recommended_num_objects' = r.b.recommended_num_objects
    /\ recommended_num_references' = r.b.recommended_num_references
    /\ creation_time' = r.b.creation_time
    /\ timeout_retries' = r.b.timeout_retries
    /\ callback' = r.b.callback
    /\ ev' = [f \in DOMAIN r \ {"b"} |-> r[f]]
    /\ callers' = callers
    /\ builder' = builder

\* the same, the log of the items left alone
Commit(r) == CommitFields(r) /\ log' = log

\* no item enqueued yet: the batches answered 200, in order, and the items
\* taken back with pop_* / empty_*
NoLog == [delivered |-> <<>>, removed |-> {}]

Init ==
    /\ objects = <<>>
    /\ references = <<>>
    /\ batch_size = PyNone
    /\ batching_type = NoBatching
    /\ recommended_num_objects = PyNone
    /\ recommended_num_references = PyNone
    /\ creation_time = 10
    /\ timeout_retries = 0
    /\ callback = PyNone
    /\ next_id = 1
    /\ in_scope = FALSE
    /\ ev = [op |-> "__init__", exc |-> FALSE, data_type |-> "", script |-> <<>>,
             raised |-> "none", msg |-> "",
             posts |-> <<>>, auto |-> <<>>, flushes |-> 0, calls |-> <<>>,
             results |-> <<>>, cb |-> <<>>, ret |-> PyNone, arg |-> <<>>,
             responses |-> <<>>, gets |-> <<>>, delivered |-> <<>>,
             report |-> NoReport]
    /\ callers = NoCallers
    /\ builder = NewBuilder
    /\ log = NoLog

AddDataObject ==
    /\ next_id <= MaxItems
    /\ \E net \in Nets(add_data_object(Start("add_data_object"), next_id, DryNet)) :
          Commit(add_data_object(Start("add_data_object"), next_id, net))
    /\ next_id' = next_id + 1
    /\ UNCHANGED in_scope

AddReference ==
    /\ next_id <= MaxItems
    /\ \E net \in Nets(add_reference(Start("add_reference"), next_id, DryNet)) :
          Commit(add_reference(Start("add_reference"), next_id, net))
    /\ next_id' = next_id + 1
    /\ UNCHANGED in_scope

SetBatchSize ==
    /\ \E value \in BatchSizeArgs :
       \E net \in Nets(set_batch_size(Start("batch_size"), value, DryNet)) :
          Commit(set_batch_size(StartWith("batch_size", value), value, net))
    /\ UNCHANGED <<next_id, in_scope>>

SetDynamic ==
    /\ \E value \in DynamicArgs :
       \E net \in Nets(set_dynamic(Start("dynamic"), value, DryNet)) :
          Commit(set_dynamic(StartWith("dynamic", value), value, net))
    /\ UNCHANGED <<next_id, in_scope>>

\* (the rescaled counts stay within MaxRecommended)
SetCreationTime ==
    /\ \E value \in CreationTimeArgs :
       \E net \in Nets(set_creation_time(Start("creation_time"), value, DryNet)) :
          /\ Commit(set_creation_time(StartWith("creation_time", value), value, net))
          /\ recommended_num_objects'.v <= MaxRecommended
          /\ recommended_num_references'.v <= MaxRecommended
    /\ UNCHANGED <<next_id, in_scope>>

SetTimeoutRetries ==
    /\ \E value \in RetriesArgs :
          Commit(set_timeout_retries(StartWith("timeout_retries", value), value))
    /\ UNCHANGED <<next_id, in_scope>>

Configure ==
    /\ \E a \in ConfigureArgs :
       \E net \in Nets(configure(Start("configure"), a, DryNet)) :
          Commit(configure(Start("configure"), a, net))
    /\ UNCHANGED <<next_id, in_scope>>

Flush ==
    /\ \E net \in Nets(flush(Start("flush"), DryNet)) :
          Commit(flush(Start("flush"), net))
    /\ UNCHANGED <<next_id, in_scope>>

CreateObjects ==
    /\ \E net \in Nets(create_objects(Start("create_objects"), DryNet.objects)) :
          Commit(create_objects(Start("create_objects"), net.objects))
    /\ UNCHANGED <<next_id, in_scope>>

CreateReferences ==
    /\ \E net \in Nets(create_references(Start("create_references"), DryNet.references)) :
          Commit(create_references(Start("create_references"), net.references))
    /\ UNCHANGED <<next_id, in_scope>>

Enter ==
    /\ ~in_scope
    /\ Commit(enter(Start("__enter__")))
    /\ in_scope' = TRUE
    /\ UNCHANGED next_id

Exit ==
    /\ in_scope
    /\ \E exc \in BOOLEAN :
       \E net \in Nets(exit(Start("__exit__"), exc, DryNet)) :
          Commit(exit(Start("__exit__"), exc, net))
    /\ in_scope' = FALSE
    /\ UNCHANGED next_id

\* a direct call of Batch._create_data on a fresh instance, as the tests make
\* it, under a script of any outcomes, longer than any retry budget
CreateData ==
    /\ ev.op = "__init__"
    /\ \E data_type \in {"objects", "references"} :
       \E script \in [1..(MaxWireRetries + 2) -> WireOutcomes] :
          Commit(create_data([Start("_create_data") EXCEPT
                                 !.data_type = data_type, !.script = script],
                             data_type,
                             IF data_type = "objects" THEN objects ELSE references,
                             script))
    /\ UNCHANGED <<next_id, in_scope>>

\* the buffering machine: enqueues, the two settings that select the flush
\* condition, and the submissions
Next ==
    \/ AddDataObject
    \/ AddReference
    \/ SetBatchSize
    \/ SetDynamic
    \/ Flush
    \/ CreateObjects
    \/ CreateReferences

Spec == Init /\ [][Next]_vars

\* the configuration machine: every setter and configure, valid and invalid
NextConfig ==
    \/ SetBatchSize
    \/ SetDynamic
    \/ SetCreationTime
    \/ SetTimeoutRetries
    \/ Configure
    \/ Flush

SpecConfig == Init /\ [][NextConfig]_vars

\* the scoped session: with batch as b: ...
NextScope ==
    \/ Enter
    \/ Exit
    \/ AddDataObject
    \/ AddReference

SpecScope == Init /\ [][NextScope]_vars

\* the wire submission alone, for every retry budget
InitWire ==
    /\ Init!1 /\ Init!2 /\ Init!3 /\ Init!4 /\ Init!5 /\ Init!6 /\ Init!7
    /\ timeout_retries \in 0..MaxWireRetries
    /\ Init!9 /\ Init!10 /\ Init!11 /\ Init!12 /\ Init!13 /\ Init!14 /\ Init!15

NextWire == CreateData

SpecWire == InitWire /\ [][NextWire]_vars

\* configure, its arguments kept with the call
ConfigureChecked ==
    /\ \E a \in ConfigureArgs :
       \E net \in Nets(configure(Start("configure"), a, DryNet)) :
          Commit(configure(StartWith("configure", a), a, net))
    /\ UNCHANGED <<next_id, in_scope>>

\* validation: a batch set up through its setters, then configured
Configured == ev.op = "configure"
ValidateBatchSize == ~Configured /\ SetBatchSize
ValidateDynamic == ~Configured /\ SetDynamic
ValidateCreationTime == ~Configured /\ SetCreationTime
ValidateTimeoutRetries == ~Configured /\ SetTimeoutRetries
ValidateConfigure == ~Configured /\ ConfigureChecked

NextValidate ==
    \/ ValidateBatchSize
    \/ ValidateDynamic
    \/ ValidateCreationTime
    \/ ValidateTimeoutRetries
    \/ ValidateConfigure

SpecValidate == Init /\ [][NextValidate]_vars

\* reconfiguration of a batch that holds items: enqueues and every setting
\* that selects or moves a flush threshold, then configure
ThresholdAddDataObject == ~Configured /\ AddDataObject
ThresholdAddReference == ~Configured /\ AddReference

\* the calls of configure that pass validation, without a callback
ReconfigureArgs ==
    {a \in ConfigureArgs :
        /\ configure_check(a) = "ok"
        /\ a.dynamic.t = "bool"
        /\ a.callback = PyNone
        /\ a.timeout_retries = PyInt(0)}

ThresholdConfigure ==
    /\ ~Configured
    /\ \E a \in ReconfigureArgs :
       \E net \in Nets(configure(Start("configure"), a, DryNet)) :
          Commit(configure(StartWith("configure", a), a, net))
    /\ UNCHANGED <<next_id, in_scope>>

\* a direct call of Batch._auto_create, as the test makes it
AutoCreate ==
    /\ ~Configured
    /\ \E net \in Nets(auto_create(Start("_auto_create"), DryNet)) :
          Commit(auto_create(Start("_auto_create"), net))
    /\ UNCHANGED <<next_id, in_scope>>

NextThreshold ==
    \/ AutoCreate
    \/ ThresholdAddDataObject
    \/ ThresholdAddReference
    \/ ValidateBatchSize
    \/ ValidateDynamic
    \/ ValidateCreationTime
    \/ ThresholdConfigure

SpecThreshold == Init /\ [][NextThreshold]_vars

\* batch._callback = f, assigned directly as test_flush does
SetCallback ==
    /\ \E f \in CallbackArgs :
          Commit([Start("_callback") EXCEPT !.b.callback = f])
    /\ UNCHANGED <<next_id, in_scope>>

\* manual flushing: enqueues without a batch size, a callback or none, flush
NextFlush ==
    \/ AddDataObject
    \/ AddReference
    \/ SetCallback
    \/ Flush

SpecFlush == Init /\ [][NextFlush]_vars

(* ----------------------- one instance, two callers -------------------- *)

Items(seq) == {seq[i] : i \in 1..Len(seq)}

\* (a variant: only the items that were submitted leave the container)
clear_submitted(items, submitted) ==
    SelectSeq(items, LAMBDA i : i \notin Items(submitted))

\* create_objects after the submission: the container is cleared
clear_container(items, submitted) == <<>>

SharedUnchanged ==
    UNCHANGED <<references, batch_size, batching_type, recommended_num_references,
                creation_time, timeout_retries, callback, in_scope, ev, builder, log>>

\* add_data_object, up to its append
SharedAppend(c) ==
    /\ callers.pc[c] = "idle"
    /\ next_id <= MaxItems + 1
    /\ objects' = Append(objects, next_id)
    /\ next_id' = next_id + 1
    /\ callers' = [callers EXCEPT
                     !.pc[c] = IF batching_type # NoBatching THEN "check" ELSE "idle"]
    /\ UNCHANGED recommended_num_objects
    /\ SharedUnchanged

\* add_data_object, its auto-flush check
SharedCheck(c) ==
    /\ callers.pc[c] = "check"
    /\ callers' = [callers EXCEPT
                     !.pc[c] = IF FixedFull(Self) THEN "submit" ELSE "idle"]
    /\ UNCHANGED <<objects, next_id, recommended_num_objects>>
    /\ SharedUnchanged

\* flush() called by hand
SharedFlush(c) ==
    /\ callers.pc[c] = "idle"
    /\ callers' = [callers EXCEPT !.pc[c] = "submit"]
    /\ UNCHANGED <<objects, next_id, recommended_num_objects>>
    /\ SharedUnchanged

\* create_objects, up to the return of the wire submission: nothing to do for
\* an empty container; otherwise the content is posted, and the call goes on
\* when the answer is 200 and ends with the exception otherwise
SharedSubmit(c) ==
    /\ callers.pc[c] = "submit"
    /\ IF objects = <<>>
       THEN callers' = [callers EXCEPT !.pc[c] = "idle"]
       ELSE \E ok \in BOOLEAN :
               callers' = IF ok
                          THEN [callers EXCEPT !.pc[c] = "clear", !.body[c] = objects,
                                               !.sent = @ \cup Items(objects)]
                          ELSE [callers EXCEPT !.pc[c] = "idle"]
    /\ UNCHANGED <<objects, next_id, recommended_num_objects>>
    /\ SharedUnchanged

\* create_objects, after the submission: the recommended count and the
\* clearing of the container
SharedClear(c) ==
    /\ callers.pc[c] = "clear"
    /\ objects' = clear_container(objects, callers.body[c])
    /\ recommended_num_objects' =
           PyInt(Recommended(Len(callers.body[c]), 10, creation_time))
    /\ callers' = [callers EXCEPT !.pc[c] = "idle", !.body[c] = <<>>]
    /\ UNCHANGED next_id
    /\ SharedUnchanged

\* a batch with batch_size 2 ('fixed' batching) or none
InitShared ==
    /\ Init!1 /\ Init!2
    /\ \/ batch_size = PyNone /\ batching_type = NoBatching
          /\ recommended_num_objects = PyNone /\ recommended_num_references = PyNone
       \/ batch_size = PyInt(2) /\ batching_type = "fixed"
          /\ recommended_num_objects = PyInt(2) /\ recommended_num_references = PyInt(2)
    /\ Init!7 /\ Init!8 /\ Init!9 /\ Init!10 /\ Init!11 /\ Init!12 /\ Init!13 /\ Init!14 /\ Init!15

Append1 == SharedAppend(1)
Append2 == SharedAppend(2)
Check1 == SharedCheck(1)
Check2 == SharedCheck(2)
Flush1 == SharedFlush(1)
Flush2 == SharedFlush(2)
Submit1 == SharedSubmit(1)
Submit2 == SharedSubmit(2)
Clear1 == SharedClear(1)
Clear2 == SharedClear(2)

NextShared ==
    \/ Append1 \/ Append2
    \/ Check1 \/ Check2
    \/ Flush1 \/ Flush2
    \/ Submit1 \/ Submit2
    \/ Clear1 \/ Clear2

SpecShared == InitShared /\ [][NextShared]_vars

(* ----------------------------- DataObject ----------------------------- *)

\* a str argument; v tells the strings of the model apart
PyText(n) == [t |-> "str", v |-> n]
\* '73802305-c0da-427e-b21c-d6779a22f35f', and 'some_id' which is no UUID
WellFormedUuid == PyText(1)
MalformedUuid == PyText(2)

\* the message of an error entry of a response body
AlreadyExists == "id '73802305' already exists"
OtherFailure == "invalid object"
\* 'already exists' in message
ContainsAlreadyExists(message) == message = AlreadyExists

\* an entry of the 'error' list of a body: with a 'message' key or without
ErrorEntry(message) == [has_message |-> TRUE, message |-> message]
NoMessage == [has_message |-> FALSE, message |-> ""]

\* what response.json() gives: is_json FALSE when the body is no JSON; id is
\* <<>> or <<the value of "id">>; error the value of "error" when has_error:
\* the entries of a list, or a value of another type
JsonBody(id, has_error, error) ==
    [is_json |-> TRUE, id |-> id, has_error |-> has_error, error |-> error,
     error_type |-> "list"]
NotJson ==
    [is_json |-> FALSE, id |-> <<>>, has_error |-> FALSE, error |-> <<>>,
     error_type |-> "list"]
\* {"error": "invalid object"} and {"error": {"message": "invalid object"}}
ErrorOfType(type) == [JsonBody(<<>>, TRUE, <<>>) EXCEPT !.error_type = type]

Bodies ==
    {NotJson, JsonBody(<<>>, FALSE, <<>>), JsonBody(<<0>>, FALSE, <<>>)}
      \cup {JsonBody(<<>>, TRUE, e) :
               e \in {<<>>, <<NoMessage>>, <<ErrorEntry(AlreadyExists)>>,
                      <<ErrorEntry(OtherFailure)>>,
                      <<ErrorEntry(OtherFailure), ErrorEntry(AlreadyExists)>>}}
      \cup {ErrorOfType("str"), ErrorOfType("dict")}

DataStatusCodes == {200, 204, 300, 404}

DataResponse(code, body) == [kind |-> "response", status_code |-> code, body |-> body]

\* what the one request of a call can end in
DataOutcomes ==
    {[kind |-> "ConnectionError", status_code |-> 0, body |-> NotJson]}
      \cup {DataResponse(c, b) : c \in DataStatusCodes, b \in Bodies}

\* str(x) of an id
StrOf(x) == [t |-> "str", of |-> x]

\* response.json()['error'][0]['message'], or the exception the lookup raises
ErrorMessage(body) ==
    IF ~body.is_json THEN [raised |-> "JSONDecodeError", message |-> ""]
    ELSE IF ~body.has_error THEN [raised |-> "KeyError", message |-> ""]
    ELSE IF body.error_type = "str" THEN [raised |-> "TypeError", message |-> ""]
    ELSE IF body.error_type = "dict" THEN [raised |-> "KeyError", message |-> ""]
    ELSE IF body.error = <<>> THEN [raised |-> "IndexError", message |-> ""]
    ELSE IF ~body.error[1].has_message THEN [raised |-> "KeyError", message |-> ""]
    ELSE [raised |-> "none", message |-> body.error[1].message]

\* DataObject.create(data_object, class_name, uuid, vector)
create(r, a, out) ==
    IF a.class_name.t # "str"
    THEN Raise(r, "TypeError", "Expected class_name of type str but was: ")
    ELSE LET r1 == [r EXCEPT
                      !.calls = @ \o <<"_get_dict_from_object">>
                                  \o (IF a.uuid.t # "NoneType"
                                      THEN <<"get_valid_uuid">> ELSE <<>>)
                                  \o (IF a.vector.t # "NoneType"
                                      THEN <<"get_vector">> ELSE <<>>),
                      !.posts = Append(@,
                         [path |-> "/objects",
                          weaviate_object |->
                              [class |-> a.class_name, properties |-> a.data_object,
                               id |-> IF a.uuid.t # "NoneType"
                                      THEN <<a.uuid>> ELSE <<>>,
                               vector |-> IF a.vector.t # "NoneType"
                                          THEN <<a.vector>> ELSE <<>>]])]
         IN  IF out.kind = "ConnectionError"
             THEN Raise(r1, "RequestsConnectionError", "Object was not added to Weaviate.")
             ELSE IF out.status_code = 200
             THEN IF ~out.body.is_json THEN Raise(r1, "JSONDecodeError", "")
                  ELSE IF out.body.id = <<>> THEN Raise(r1, "KeyError", "'id'")
                  ELSE [r1 EXCEPT !.ret = StrOf(out.body.id[1])]
             ELSE LET found == ErrorMessage(out.body)
                  IN  IF found.raised \notin {"none", "KeyError"}
                      THEN Raise(r1, found.raised, "")
                      ELSE IF found.raised = "none" /\ ContainsAlreadyExists(found.message)
                      THEN Raise(r1, "ObjectAlreadyExistsException", "uuid")
                      ELSE Raise(r1, "UnexpectedStatusCodeException", "Creating object")

\* _get_params(additional_properties, with_vector): the 'include' names, or
\* the TypeError of additional properties that are no list
get_params(additional_properties, with_vector) ==
    IF additional_properties.t \notin {"NoneType", "list"}
    THEN [raised |-> "TypeError", include |-> <<>>]
    ELSE [raised |-> "none",
          include |-> (IF additional_properties.t = "list"
                       THEN additional_properties.v ELSE <<>>)
                      \o (IF with_vector THEN <<"vector">> ELSE <<>>)]

\* DataObject._get_response(uuid, additional_properties, with_vector): the
\* run record with the GET request made, or with the exception raised
get_response(r, uuid, additional_properties, with_vector, out) ==
    LET params == get_params(additional_properties, with_vector)
    IN  IF params.raised # "none"
        THEN Raise(r, "TypeError", "Additional properties must be of type list")
        ELSE IF uuid.t \notin {"NoneType", "str"}
        THEN Raise(r, "TypeError", "can only concatenate str")
        ELSE LET r1 == [r EXCEPT !.gets = Append(@,
                           [path |-> IF uuid.t = "NoneType" THEN <<"/objects">>
                                     ELSE <<"/objects/", uuid>>,
                            params |-> params.include])]
             IN  IF out.kind = "ConnectionError"
                 THEN Raise(r1, "RequestsConnectionError", "")
                 ELSE r1

\* (a variant: a 404 gives None whether or not a uuid was given)
get_none_on_any_404(r, a, out) ==
    LET r1 == get_response(r, a.uuid, a.additional_properties, a.with_vector, out)
    IN  IF r1.raised = "RequestsConnectionError"
        THEN Raise(r1, "RequestsConnectionError", "Could not get object/s.")
        ELSE IF r1.raised # "none" THEN r1
        ELSE IF out.status_code = 200
        THEN IF ~out.body.is_json THEN Raise(r1, "JSONDecodeError", "")
             ELSE [r1 EXCEPT !.ret = [t |-> "json", v |-> out.body]]
        ELSE IF out.status_code = 404 THEN [r1 EXCEPT !.ret = PyNone]
        ELSE Raise(r1, "UnexpectedStatusCodeException", "Get object/s")

\* DataObject.get(uuid, additional_properties, with_vector)
get(r, a, out) ==
    LET r1 == get_response(r, a.uuid, a.additional_properties, a.with_vector, out)
    IN  IF r1.raised = "RequestsConnectionError"
        THEN Raise(r1, "RequestsConnectionError", "Could not get object/s.")
        ELSE IF r1.raised # "none" THEN r1
        ELSE IF out.status_code = 200
        THEN IF ~out.body.is_json THEN Raise(r1, "JSONDecodeError", "")
             ELSE [r1 EXCEPT !.ret = [t |-> "json", v |-> out.body]]
        ELSE IF a.uuid.t # "NoneType" /\ out.status_code = 404
        THEN [r1 EXCEPT !.ret = PyNone]
        ELSE Raise(r1, "UnexpectedStatusCodeException", "Get object/s")

\* DataObject.exists(uuid)
exists(r, uuid, out) ==
    LET r1 == get_response(r, uuid, PyNone, FALSE, out)
    IN  IF r1.raised # "none" THEN r1
        ELSE IF out.status_code = 200 THEN [r1 EXCEPT !.ret = PyBool(TRUE)]
        ELSE IF out.status_code = 404 THEN [r1 EXCEPT !.ret = PyBool(FALSE)]
        ELSE Raise(r1, "UnexpectedStatusCodeException", "Object exists")

UuidArgs == {PyNone, WellFormedUuid, MalformedUuid, PyInt(1)}

CreateArgs ==
    [data_object : {[t |-> "dict", v |-> 0]}, class_name : {PyText(3), PyList(<<>>)},
     uuid : {PyNone, WellFormedUuid}, vector : {PyNone, PyList(<<1, 2>>)}]

GetArgs ==
    [uuid : UuidArgs,
     additional_properties : {PyNone, PyList(<<"test1", "test2">>), PyText(4)},
     with_vector : BOOLEAN]

DataCreate ==
    /\ \E a \in CreateArgs : \E out \in DataOutcomes :
          Commit(create([StartWith("create", a) EXCEPT !.responses = <<out>>], a, out))
    /\ UNCHANGED <<next_id, in_scope>>

DataGet ==
    /\ \E a \in GetArgs : \E out \in DataOutcomes :
          Commit(get([StartWith("get", a) EXCEPT !.responses = <<out>>], a, out))
    /\ UNCHANGED <<next_id, in_scope>>

DataExists ==
    /\ \E uuid \in UuidArgs : \E out \in DataOutcomes :
          Commit(exists([StartWith("exists", uuid) EXCEPT !.responses = <<out>>],
                        uuid, out))
    /\ UNCHANGED <<next_id, in_scope>>

\* the calls of a DataObject, which keeps no state between them
NextData ==
    \/ DataCreate
    \/ DataGet
    \/ DataExists

SpecData == Init /\ [][NextData]_vars

(* -------------------------- AggregateBuilder -------------------------- *)

\* the builder's fields: where is <<>> for None and <<content>> otherwise,
\* group_by_properties <<>> for None and <<list>> otherwise

\* str(Where(content)), as pieces of text
WhereText(content) == <<"where: {", content, "} ">>

\* json.dumps(properties), as pieces of text
JsonDumps(properties) == <<"[">> \o properties \o <<"]">>

\* (a variant: an empty group-by list is left out)
build_skips_empty_group_by(b) ==
    [b |-> b,
     query |->
        <<"{Aggregate{", b.class_name>>
        \o (IF b.uses_filter THEN <<"(">> ELSE <<>>)
        \o (IF b.where # <<>> THEN WhereText(b.where[1]) ELSE <<>>)
        \o (IF b.group_by_properties # <<>> /\ b.group_by_properties[1] # <<>>
            THEN <<"groupBy: ">> \o JsonDumps(b.group_by_properties[1]) ELSE <<>>)
        \o (IF b.uses_filter THEN <<")">> ELSE <<>>)
        \o <<"{">>
        \o (IF b.with_meta_count THEN <<"meta{count}">> ELSE <<>>)
        \o b.fields
        \o <<"}}}">>]

\* AggregateBuilder.build(): the builder's fields after the call and the query
build(b) ==
    [b |-> b,
     query |->
        <<"{Aggregate{", b.class_name>>
        \o (IF b.uses_filter THEN <<"(">> ELSE <<>>)
        \o (IF b.where # <<>> THEN WhereText(b.where[1]) ELSE <<>>)
        \o (IF b.group_by_properties # <<>>
            THEN <<"groupBy: ">> \o JsonDumps(b.group_by_properties[1]) ELSE <<>>)
        \o (IF b.uses_filter THEN <<")">> ELSE <<>>)
        \o <<"{">>
        \o (IF b.with_meta_count THEN <<"meta{count}">> ELSE <<>>)
        \o b.fields
        \o <<"}}}">>]

with_meta_count(b) == [b EXCEPT !.with_meta_count = TRUE]
with_fields(b, field) == [b EXCEPT !.fields = Append(@, field)]
with_where(b, content) == [b EXCEPT !.where = <<content>>, !.uses_filter = TRUE]
with_group_by_filter(b, properties) ==
    [b EXCEPT !.group_by_properties = <<properties>>, !.uses_filter = TRUE]

FieldArgs == {"size { mean }", "name { count }"}
WhereArgs == {"path: [name] operator: Equal valueString: B",
              "path: [size] operator: LessThan valueInt: 3"}
GroupByArgs == {<<>>, <<"name">>, <<"name", "size">>}

\* a call on the builder: its fields after it, the call kept in the history
BuilderCall(b, op, arg) ==
    /\ Len(builder.history) < MaxCalls
    /\ builder' = [self |-> b, history |-> Append(builder.history, [op |-> op, arg |-> arg])]
    /\ ev' = [f \in DOMAIN Start(op) \ {"b"} |-> Start(op)[f]]
    /\ UNCHANGED <<objects, references, batch_size, batching_type,
                   recommended_num_objects, recommended_num_references,
                   creation_time, timeout_retries, callback, next_id, in_scope,
                   callers, log>>

WithMetaCount == BuilderCall(with_meta_count(builder.self), "with_meta_count", <<>>)

WithFields ==
    \E field \in FieldArgs :
        BuilderCall(with_fields(builder.self, field), "with_fields", <<field>>)

WithWhere ==
    \E content \in WhereArgs :
        BuilderCall(with_where(builder.self, content), "with_where", <<content>>)

WithGroupByFilter ==
    \E properties \in GroupByArgs :
        BuilderCall(with_group_by_filter(builder.self, properties),
                    "with_group_by_filter", properties)

Build ==
    /\ builder' = [builder EXCEPT !.self = build(builder.self).b]
    /\ ev' = [f \in DOMAIN Start("build") \ {"b"} |->
                 IF f = "ret" THEN [t |-> "str", v |-> build(builder.self).query]
                 ELSE Start("build")[f]]
    /\ UNCHANGED <<objects, references, batch_size, batching_type,
                   recommended_num_objects, recommended_num_references,
                   creation_time, timeout_retries, callback, next_id, in_scope,
                   callers, log>>

NextAggregate ==
    \/ WithMetaCount
    \/ WithFields
    \/ WithWhere
    \/ WithGroupByFilter
    \/ Build

SpecAggregate == Init /\ [][NextAggregate]_vars

(* ------------------------- taking items back -------------------------- *)

PyItem(item) == [t |-> "item", v |-> item]

\* BatchRequest.pop(index): the item at a 0-based index, a negative index
\* counted from the end; IndexError when there is no such item
pop(items, index) ==
    LET n == Len(items)
        i == IF index < 0 THEN index + n ELSE index
    IN  IF i < 0 \/ i >= n
        THEN [raised |-> "IndexError", item |-> 0, items |-> items]
        ELSE [raised |-> "none", item |-> items[i + 1],
              items |-> SubSeq(items, 1, i) \o SubSeq(items, i + 2, n)]

\* (a variant: the first item when no index is given)
IndexOfDefaultFirst(args) == IF args = <<>> THEN 0 ELSE args[1]

\* the index of a pop_* call: -1 when none is given
IndexOf(args) == IF args = <<>> THEN 0 - 1 ELSE args[1]

\* Batch.pop_object(index=-1)
pop_object(r, args) ==
    LET p == pop(r.b.objects, IndexOf(args))
    IN  IF p.raised # "none" THEN Raise(r, p.raised, "pop")
        ELSE [r EXCEPT !.b.objects = p.items, !.ret = PyItem(p.item)]

\* Batch.pop_reference(index=-1)
pop_reference(r, args) ==
    LET p == pop(r.b.references, IndexOf(args))
    IN  IF p.raised # "none" THEN Raise(r, p.raised, "pop")
        ELSE [r EXCEPT !.b.references = p.items, !.ret = PyItem(p.item)]

\* Batch.empty_objects() and Batch.empty_references()
empty_objects(r) == [r EXCEPT !.b.objects = <<>>]
empty_references(r) == [r EXCEPT !.b.references = <<>>]

IndexArgs == {<<>>} \cup {<<i>> : i \in (0 - MaxItems - 1)..MaxItems}

\* the call returns (or raises), and the log takes the batches it delivered
\* and the items it took out of the containers without submitting them
Track(r) ==
    /\ CommitFields(r)
    /\ log' = [delivered |-> log.delivered \o r.delivered,
               removed |-> log.removed \cup
                   IF r.op \in {"pop_object", "pop_reference",
                                "empty_objects", "empty_references"}
                   THEN (Items(objects) \cup Items(references))
                            \ (Items(r.b.objects) \cup Items(r.b.references))
                   ELSE {}]

BufferAddDataObject ==
    /\ next_id <= MaxItems
    /\ \E net \in Nets(add_data_object(Start("add_data_object"), next_id, DryNet)) :
          Track(add_data_object(StartWith("add_data_object", next_id), next_id, net))
    /\ next_id' = next_id + 1
    /\ UNCHANGED in_scope

BufferAddReference ==
    /\ next_id <= MaxItems
    /\ \E net \in Nets(add_reference(Start("add_reference"), next_id, DryNet)) :
          Track(add_reference(StartWith("add_reference", next_id), next_id, net))
    /\ next_id' = next_id + 1
    /\ UNCHANGED in_scope

BufferSetBatchSize ==
    /\ \E value \in ValidBatchSize :
       \E net \in Nets(set_batch_size(Start("batch_size"), value, DryNet)) :
          Track(set_batch_size(StartWith("batch_size", value), value, net))
    /\ UNCHANGED <<next_id, in_scope>>

BufferSetDynamic ==
    /\ \E value \in {PyBool(TRUE), PyBool(FALSE)} :
       \E net \in Nets(set_dynamic(Start("dynamic"), value, DryNet)) :
          Track(set_dynamic(StartWith("dynamic", value), value, net))
    /\ UNCHANGED <<next_id, in_scope>>

BufferFlush ==
    /\ \E net \in Nets(flush(Start("flush"), DryNet)) :
          Track(flush(Start("flush"), net))
    /\ UNCHANGED <<next_id, in_scope>>

PopObject ==
    /\ \E args \in IndexArgs : Track(pop_object(StartWith("pop_object", args), args))
    /\ UNCHANGED <<next_id, in_scope>>

PopReference ==
    /\ \E args \in IndexArgs : Track(pop_reference(StartWith("pop_reference", args), args))
    /\ UNCHANGED <<next_id, in_scope>>

EmptyObjects ==
    /\ Track(empty_objects(Start("empty_objects")))
    /\ UNCHANGED <<next_id, in_scope>>

EmptyReferences ==
    /\ Track(empty_references(Start("empty_references")))
    /\ UNCHANGED <<next_id, in_scope>>

\* one caller: enqueues, the batch size and the batching type, flushes, and
\* items taken back
NextBuffer ==
    \/ BufferAddDataObject
    \/ BufferAddReference
    \/ BufferSetBatchSize
    \/ BufferSetDynamic
    \/ BufferFlush
    \/ PopObject
    \/ PopReference
    \/ EmptyObjects
    \/ EmptyReferences

SpecBuffer == Init /\ [][NextBuffer]_vars

(* ------------------------------ claims -------------------------------- *)

\* the check of the last call, when it ran in the given batching type
CheckedIn(type) == ev.auto # <<>> /\ ev.auto[1].batching_type = type

\* C1, as amended: in 'fixed' batching the auto-flush check flushes exactly
\* when num_objects + num_references >= batch_size (the two counts are added);
\* the check runs in every add_data_object / add_reference call and in every
\* batch_size / dynamic assignment that passes validation.
C1_FixedFlushesOnSum ==
    /\ CheckedIn("fixed") =>
          /\ Len(ev.auto) = 1
          /\ ev.flushes = 1 <=>
                ev.auto[1].num_objects + ev.auto[1].num_references
                    >= ev.auto[1].batch_size.v
    /\ ( /\ batching_type = "fixed"
         /\ ev.op \in {"add_data_object", "add_reference", "batch_size", "dynamic"}
         /\ ev.raised \notin {"TypeError", "ValueError"} ) => CheckedIn("fixed")

\* 1 object and 1 reference with batch_size = 2: flushed
C1_Witness ==
    /\ CheckedIn("fixed")
    /\ ev.auto[1].num_objects = 1 /\ ev.auto[1].num_references = 1
    /\ ev.auto[1].batch_size.v = 2
    /\ ev.flushes = 1

\* C1, as stated: in 'fixed' batching the check flushes exactly when
\* num_objects >= batch_size or num_references >= batch_size, each count
\* compared on its own.
C1_Original ==
    CheckedIn("fixed") =>
        (ev.flushes = 1 <=>
            \/ ev.auto[1].num_objects >= ev.auto[1].batch_size.v
            \/ ev.auto[1].num_references >= ev.auto[1].batch_size.v)

\* C2: in 'dynamic' batching the auto-flush check flushes exactly when
\* num_objects >= recommended_num_objects or
\* num_references >= recommended_num_references.
C2_DynamicFlushesOnEither ==
    /\ CheckedIn("dynamic") =>
          /\ Len(ev.auto) = 1
          /\ ev.auto[1].recommended_num_objects.t = "int"
          /\ ev.auto[1].recommended_num_references.t = "int"
          /\ ev.flushes = 1 <=>
                \/ ev.auto[1].num_objects >= ev.auto[1].recommended_num_objects.v
                \/ ev.auto[1].num_references >= ev.auto[1].recommended_num_references.v
    /\ ( /\ batching_type = "dynamic"
         /\ ev.op \in {"add_data_object", "add_reference", "batch_size", "dynamic"}
         /\ ev.raised \notin {"TypeError", "ValueError"} ) => CheckedIn("dynamic")

\* 1 object and 1 reference with both recommended counts at 2: not flushed
C2_Witness ==
    /\ CheckedIn("dynamic")
    /\ ev.auto[1].num_objects = 1 /\ ev.auto[1].num_references = 1
    /\ ev.auto[1].recommended_num_objects.v = 2
    /\ ev.auto[1].recommended_num_references.v = 2
    /\ ev.flushes = 0

\* C3: while batching_type is None, an add_data_object / add_reference call
\* appends its item to its own container and does nothing else: no post, no
\* auto-flush check, no flush, no exception; so shape grows by exactly the
\* items enqueued.
C3_NoBatchingOnlyBuffers ==
    [][ (batching_type = NoBatching /\ ev'.op \in {"add_data_object", "add_reference"}) =>
          /\ ev'.raised = "none" /\ ev'.posts = <<>> /\ ev'.auto = <<>>
          /\ ev'.flushes = 0 /\ ev'.calls = <<>>
          /\ objects' = IF ev'.op = "add_data_object"
                        THEN Append(objects, next_id) ELSE objects
          /\ references' = IF ev'.op = "add_reference"
                           THEN Append(references, next_id) ELSE references
          /\ batching_type' = NoBatching ]_vars

\* one object and one reference buffered with no batching
C3_Witness ==
    /\ batching_type = NoBatching
    /\ ev.op = "add_reference"
    /\ Len(objects) = 1 /\ Len(references) = 1
    /\ ev.posts = <<>>

\* C4: __enter__ returns the Batch itself; __exit__ calls flush exactly once,
\* whether the block ended normally or raised.
C4_ExitFlushesOnce ==
    /\ ev.op = "__enter__" => ev.ret.t = "Batch" /\ ev.flushes = 0
    /\ ev.op = "__exit__" => ev.flushes = 1 /\ ev.calls # <<>>

\* the block raised, and the buffered object was submitted on the way out
C4_Witness ==
    /\ ev.op = "__exit__" /\ ev.exc
    /\ ev.flushes = 1 /\ ev.posts # <<>> /\ ev.raised = "none"

\* the first n attempts of the last wire submission all ended in a read timeout
TimedOut(n) == \A i \in 1..n : ev.script[i] = ReadTimeout

\* C5: when every attempt of _create_data ends in a read timeout, exactly
\* timeout_retries + 1 posts are made and then ReadTimeout is raised.
C5_TimeoutsPostRetriesPlusOne ==
    (ev.op = "_create_data" /\ TimedOut(timeout_retries + 1)) =>
        /\ Len(ev.posts) = timeout_retries + 1
        /\ ev.raised = "ReadTimeout"

\* timeout_retries = 3: four posts
C5_Witness ==
    /\ ev.op = "_create_data" /\ timeout_retries = 3
    /\ TimedOut(4) /\ Len(ev.posts) = 4 /\ ev.raised = "ReadTimeout"

\* C6: a connection error on any attempt of _create_data (the first, or one
\* made after read timeouts) is raised at once as RequestsConnectionError
\* 'Batch was not added to weaviate.', and no further post is made.
C6_ConnectionErrorNotRetried ==
    ev.op = "_create_data" =>
        \A k \in 1..(timeout_retries + 1) :
            (TimedOut(k - 1) /\ ev.script[k] = ConnectionError) =>
                /\ ev.raised = "RequestsConnectionError"
                /\ ev.msg = "Batch was not added to weaviate."
                /\ Len(ev.posts) = k

\* the connection fails on the third attempt, with retries left
C6_Witness ==
    /\ ev.op = "_create_data" /\ timeout_retries = 3
    /\ TimedOut(2) /\ ev.script[3] = ConnectionError
    /\ ev.raised = "RequestsConnectionError" /\ Len(ev.posts) = 3

\* C7: a post of _create_data answered with a status other than 200 raises
\* UnexpectedStatusCodeException with 'Create objects in batch' /
\* 'Create references in batch' and is not retried (a first attempt so answered
\* is the only post, whatever timeout_retries is); status 200 returns the
\* response.
C7_StatusNotRetried ==
    ev.op = "_create_data" =>
        \A k \in 1..(timeout_retries + 1) :
            (TimedOut(k - 1) /\ ev.script[k].kind = "response") =>
                /\ Len(ev.posts) = k
                /\ IF ev.script[k].status_code = 200
                   THEN /\ ev.raised = "none"
                        /\ ev.ret.t = "response"
                        /\ ev.ret.v = ev.script[k]
                   ELSE /\ ev.raised = "UnexpectedStatusCodeException"
                        /\ ev.msg = IF ev.data_type = "objects"
                                    THEN "Create objects in batch"
                                    ELSE "Create references in batch"

\* status 204 on the first attempt with three retries allowed: one post
C7_Witness ==
    /\ ev.op = "_create_data" /\ timeout_retries = 3
    /\ ev.script[1].kind = "response" /\ ev.script[1].status_code = 204
    /\ ev.raised = "UnexpectedStatusCodeException" /\ Len(ev.posts) = 1
    /\ ev.data_type = "references"

\* both recommended counts are what they were
RecommendedKept ==
    /\ recommended_num_objects' = recommended_num_objects
    /\ recommended_num_references' = recommended_num_references

\* C8: a create_objects / create_references call that raises (directly or as
\* the failing call of a flush) leaves its container with the same items in
\* the same order and leaves both recommended counts as they were at its
\* start; a container changes only in a call that did not raise.
C8_FailedCreateKeepsContainer ==
    [][ /\ (ev'.op \in {"create_objects", "create_references"} /\ ev'.raised # "none") =>
              /\ objects' = objects /\ references' = references
              /\ RecommendedKept
        /\ (ev'.op = "flush" /\ ev'.raised # "none" /\ ev'.calls = <<"create_objects">>) =>
              /\ objects' = objects /\ references' = references
              /\ RecommendedKept
        /\ (ev'.op = "flush" /\ ev'.raised # "none" /\ Len(ev'.calls) = 2) =>
              /\ references' = references
              /\ recommended_num_references' = recommended_num_references
        /\ (ev'.op \in {"create_objects", "create_references"}
              /\ (objects' # objects \/ references' # references)) =>
              ev'.raised = "none" ]_vars

\* create_objects timed out with two objects buffered: both still there
C8_Witness ==
    /\ ev.op = "create_objects" /\ ev.raised = "ReadTimeout"
    /\ objects = <<1, 2>> /\ ev.posts # <<>>

\* no post of the call went to the path of the given kind
NoPostTo(e, data_type) ==
    \A i \in 1..Len(e.posts) : e.posts[i].path # Path(data_type)

EmptyList(value) == value.t = "list" /\ value.v = <<>>

\* C9: create_objects / create_references on an empty container (called
\* directly or by flush) returns [], makes no post and changes no field of the
\* Batch; so a flush with one container empty posts only the other container
\* (one post when timeout_retries = 0) and a flush with both empty posts
\* nothing.
C9_EmptyCreateDoesNothing ==
    [][ /\ (ev'.op = "create_objects" /\ objects = <<>>) =>
              /\ EmptyList(ev'.ret) /\ ev'.posts = <<>> /\ ev'.raised = "none"
              /\ Self' = Self
        /\ (ev'.op = "create_references" /\ references = <<>>) =>
              /\ EmptyList(ev'.ret) /\ ev'.posts = <<>> /\ ev'.raised = "none"
              /\ Self' = Self
        /\ (ev'.op = "flush" /\ objects = <<>>) =>
              /\ ev'.results # <<>> /\ EmptyList(ev'.results[1])
              /\ NoPostTo(ev', "objects")
              /\ recommended_num_objects' = recommended_num_objects
              /\ (references # <<>>) =>
                    /\ ev'.posts # <<>>
                    /\ timeout_retries = 0 => Len(ev'.posts) = 1
              /\ (references = <<>>) =>
                    /\ ev'.posts = <<>> /\ Self' = Self
                    /\ Len(ev'.results) = 2 /\ EmptyList(ev'.results[2])
        /\ (ev'.op = "flush" /\ objects # <<>> /\ references = <<>>) =>
              /\ NoPostTo(ev', "references")
              /\ recommended_num_references' = recommended_num_references
              /\ ev'.posts # <<>>
              /\ timeout_retries = 0 => Len(ev'.posts) = 1
              /\ ev'.raised = "none" =>
                    Len(ev'.results) = 2 /\ EmptyList(ev'.results[2]) ]_vars

\* a flush with one reference buffered and no object made a single post
C9_Witness ==
    /\ ev.op = "flush" /\ ev.raised = "none"
    /\ Len(ev.results) = 2 /\ EmptyList(ev.results[1]) /\ ~EmptyList(ev.results[2])
    /\ Len(ev.posts) = 1 /\ ev.posts[1].path = "/batch/references"

\* C10: batching_type is None exactly when batch_size is None.
C10_NoBatchingIffNoBatchSize ==
    (batching_type = NoBatching) <=> (batch_size.t = "NoneType")

\* batch_size was set back to None after dynamic batching was on
C10_Witness ==
    /\ ev.op = "batch_size" /\ ev.raised = "none"
    /\ batching_type = NoBatching /\ batch_size.t = "NoneType"
    /\ recommended_num_objects.t = "int"

\* the call raised because its argument failed validation
Rejected(e) == e.raised \in {"TypeError", "ValueError"}

\* the call submitted the buffered objects (references) and emptied the container
SubmittedObjects == objects # <<>> /\ objects' = <<>>
SubmittedReferences == references # <<>> /\ references' = <<>>

\* the batch_size setter accepted a positive int while dynamic batching was off
AssignedBatchSizeNotDynamic ==
    /\ ev'.op = "batch_size" /\ ~Rejected(ev')
    /\ batch_size'.t = "int"
    /\ batching_type # "dynamic"

\* C11, as amended: assigning batch_size = N (a positive int) while
\* batching_type is None or 'fixed' ends with batching_type = 'fixed' and
\* batch_size = N; a recommended count that was unset becomes N and one that
\* was set keeps its value (unless the auto-flush check of the assignment
\* submitted that kind, which recomputes its count).
C11_BatchSizeFillsUnsetCounts ==
    [][ AssignedBatchSizeNotDynamic =>
          /\ batching_type' = "fixed"
          /\ ev'.auto # <<>>
          /\ ~SubmittedObjects =>
                recommended_num_objects' = FillUnset(recommended_num_objects, batch_size')
          /\ ~SubmittedReferences =>
                recommended_num_references' =
                    FillUnset(recommended_num_references, batch_size') ]_vars

\* batch_size = 2 assigned while both recommended counts were already 1
C11_Witness ==
    /\ ev.op = "batch_size" /\ ev.raised = "none" /\ ev.flushes = 0
    /\ batching_type = "fixed" /\ batch_size = PyInt(2)
    /\ recommended_num_objects = PyInt(1)
    /\ recommended_num_references = PyInt(1)

\* C11, as stated: assigning batch_size = N while batching_type is None or
\* 'fixed', whatever the recommended counts are, ends with batching_type =
\* 'fixed' and both recommended counts equal to N.
C11_Original ==
    [][ AssignedBatchSizeNotDynamic =>
          /\ batching_type' = "fixed"
          /\ recommended_num_objects' = batch_size'
          /\ recommended_num_references' = batch_size' ]_vars

\* the batch_size setter accepted a positive int while dynamic batching was on
AssignedBatchSizeDynamic ==
    /\ ev'.op = "batch_size" /\ ~Rejected(ev')
    /\ batch_size'.t = "int"
    /\ batching_type = "dynamic"

\* the batch_size setter accepted None
ClearedBatchSize ==
    ev'.op = "batch_size" /\ ~Rejected(ev') /\ batch_size'.t = "NoneType"

\* C12: assigning batch_size = N while batching_type is 'dynamic' keeps
\* 'dynamic' and fills in only the recommended counts that are unset, a count
\* that is set keeps its value: this is what the auto-flush check of the
\* assignment finds, and what the call ends with for every kind that check
\* did not submit.  Assigning batch_size = None resets batching_type to None,
\* leaves both recommended counts as they were and runs no auto-flush check.
C12_BatchSizeInDynamic ==
    [][ /\ AssignedBatchSizeDynamic =>
              /\ batching_type' = "dynamic"
              /\ Len(ev'.auto) = 1
              /\ ev'.auto[1].batching_type = "dynamic"
              /\ ev'.auto[1].batch_size = batch_size'
              /\ ev'.auto[1].recommended_num_objects =
                    FillUnset(recommended_num_objects, batch_size')
              /\ ev'.auto[1].recommended_num_references =
                    FillUnset(recommended_num_references, batch_size')
              /\ ~SubmittedObjects =>
                    recommended_num_objects' =
                        FillUnset(recommended_num_objects, batch_size')
              /\ ~SubmittedReferences =>
                    recommended_num_references' =
                        FillUnset(recommended_num_references, batch_size')
        /\ ClearedBatchSize =>
              /\ batching_type' = NoBatching
              /\ RecommendedKept
              /\ ev'.auto = <<>> /\ ev'.flushes = 0 /\ ev'.posts = <<>>
              /\ objects' = objects /\ references' = references ]_vars

\* batch_size = 1 assigned in 'dynamic' batching with both counts at 2
C12_Witness ==
    /\ ev.op = "batch_size" /\ ev.raised = "none" /\ ev.auto # <<>>
    /\ batching_type = "dynamic" /\ batch_size = PyInt(1)
    /\ recommended_num_objects = PyInt(2)
    /\ recommended_num_references = PyInt(2)

\* the dynamic setter accepted True (False) while a batch size was set
EnabledDynamic ==
    /\ ev'.op = "dynamic" /\ ~Rejected(ev')
    /\ batching_type # NoBatching /\ batching_type' = "dynamic"
DisabledDynamic ==
    /\ ev'.op = "dynamic" /\ ~Rejected(ev')
    /\ batching_type # NoBatching /\ batching_type' = "fixed"

\* C13, as amended: with batch_size = N set, enabling dynamic yields
\* batching_type = 'dynamic'; a recommended count that is unset is initialised
\* to N and one that is set keeps its value (so both are N when the
\* assignment of batch_size = N found them unset).  Disabling dynamic yields
\* batching_type = 'fixed' and leaves both counts as they were.  This is what
\* the auto-flush check of the assignment finds, and what the call ends with
\* for every kind that check did not submit.
C13_DynamicKeepsSetCounts ==
    [][ /\ EnabledDynamic =>
              /\ batch_size' = batch_size /\ batch_size.t = "int"
              /\ Len(ev'.auto) = 1
              /\ ev'.auto[1].batching_type = "dynamic"
              /\ ev'.auto[1].recommended_num_objects =
                    FillUnset(recommended_num_objects, batch_size)
              /\ ev'.auto[1].recommended_num_references =
                    FillUnset(recommended_num_references, batch_size)
              /\ ~SubmittedObjects =>
                    recommended_num_objects' =
                        FillUnset(recommended_num_objects, batch_size)
              /\ ~SubmittedReferences =>
                    recommended_num_references' =
                        FillUnset(recommended_num_references, batch_size)
        /\ DisabledDynamic =>
              /\ batch_size' = batch_size
              /\ Len(ev'.auto) = 1
              /\ ev'.auto[1].batching_type = "fixed"
              /\ ev'.auto[1].recommended_num_objects = recommended_num_objects
              /\ ev'.auto[1].recommended_num_references = recommended_num_references
              /\ ~SubmittedObjects =>
                    recommended_num_objects' = recommended_num_objects
              /\ ~SubmittedReferences =>
                    recommended_num_references' = recommended_num_references ]_vars

\* dynamic enabled with batch_size = 2 while both counts were 1
C13_Witness ==
    /\ ev.op = "dynamic" /\ ev.raised = "none" /\ ev.flushes = 0
    /\ batching_type = "dynamic" /\ batch_size = PyInt(2)
    /\ recommended_num_objects = PyInt(1)
    /\ recommended_num_references = PyInt(1)

\* C13, as stated: with batch_size = N set, enabling dynamic yields
\* batching_type = 'dynamic' with both recommended counts equal to N.
C13_Original ==
    [][ EnabledDynamic =>
          /\ ev'.auto # <<>>
          /\ ev'.auto[1].recommended_num_objects = batch_size
          /\ ev'.auto[1].recommended_num_references = batch_size ]_vars

\* C14: while batching_type is None, assigning dynamic = True or False
\* changes no field of the Batch and no container, runs no auto-flush check,
\* no flush and no post, raises nothing, and the dynamic getter still returns
\* False.
C14_DynamicIgnoredWithoutBatchSize ==
    [][ ( /\ ev'.op = "dynamic" /\ ev'.arg[1].t = "bool"
          /\ batching_type = NoBatching ) =>
          /\ Self' = Self
          /\ ev'.raised = "none"
          /\ ev'.auto = <<>> /\ ev'.flushes = 0 /\ ev'.posts = <<>>
          /\ ~get_dynamic(Self') ]_vars

\* dynamic = True assigned with an object buffered and no batch size
C14_Witness ==
    /\ ev.op = "dynamic" /\ ev.arg = <<PyBool(TRUE)>>
    /\ batching_type = NoBatching /\ batch_size = PyNone
    /\ objects # <<>> /\ ev.auto = <<>>

\* count2 is count1 multiplied by t2 / t1 (rounded down), None when count1 is
ScaledBy(count1, count2, t1, t2) ==
    IF count1.t = "NoneType" THEN count2 = count1
    ELSE /\ count2.t = "int"
         /\ count2.v * t1 <= count1.v * t2
         /\ count1.v * t2 < (count2.v + 1) * t1

\* C15: assigning creation_time = t2 when it is t1 multiplies every
\* recommended count that is set by t2 / t1 and leaves an unset count unset,
\* in every batching type, None included.
C15_CreationTimeRescales ==
    [][ (ev'.op = "creation_time" /\ ~Rejected(ev')) =>
          /\ creation_time' = ev'.arg[1].v
          /\ ScaledBy(recommended_num_objects, recommended_num_objects',
                      creation_time, creation_time')
          /\ ScaledBy(recommended_num_references, recommended_num_references',
                      creation_time, creation_time')
          /\ batching_type' = batching_type /\ batch_size' = batch_size
          /\ ev'.auto = <<>> <=> batching_type = NoBatching ]_vars

\* creation_time 5 -> 10 with no batch size set took a count from 2 to 4
C15_Witness ==
    /\ ev.op = "creation_time" /\ ev.raised = "none"
    /\ batching_type = NoBatching /\ creation_time = 10
    /\ recommended_num_objects = PyInt(4)
    /\ recommended_num_references = PyInt(4)

\* the run of the four setters, in the order creation_time, timeout_retries,
\* batch_size, dynamic, with the arguments a of a configure call
ThroughSetters(a) ==
    set_dynamic(
        set_batch_size(
            set_timeout_retries(
                set_creation_time(Start("setters"), a.creation_time, DryNet),
                a.timeout_retries),
            a.batch_size, DryNet),
        a.dynamic, DryNet)

\* configure returned: its arguments were accepted
Accepted(e) == e.op = "configure" /\ e.raised = "none"

\* C16, as amended: an accepted configure ends with the same batch_size,
\* batching_type, creation_time and timeout_retries as the four setters called
\* in the order creation_time, timeout_retries, batch_size, dynamic, but not
\* with the same recommended counts: a changed creation_time does not rescale
\* them and a non-dynamic batch_size = N does not initialise them (they are
\* left as they were, as with batch_size = None); with batch_size = N and
\* dynamic = True the counts that are unset become N.
C16_ConfigureKeepsCounts ==
    [][ Accepted(ev') =>
          LET a == ev'.arg[1]
              b == ThroughSetters(a).b
          IN  /\ batch_size' = b.batch_size /\ batch_size' = a.batch_size
              /\ batching_type' = b.batching_type
              /\ creation_time' = b.creation_time
              /\ timeout_retries' = b.timeout_retries
              /\ (a.batch_size.t = "NoneType" \/ a.dynamic.v = 0) => RecommendedKept
              /\ (a.batch_size.t = "int" /\ a.dynamic.v = 1) =>
                    /\ recommended_num_objects.t = "NoneType" =>
                          recommended_num_objects' = a.batch_size
                    /\ recommended_num_references.t = "NoneType" =>
                          recommended_num_references' = a.batch_size ]_vars

\* configure(batch_size = 2, creation_time = 5) on a new Batch: 'fixed'
\* batching with both recommended counts still unset
C16_Witness ==
    /\ Accepted(ev) /\ ev.arg[1].batch_size = PyInt(2)
    /\ batching_type = "fixed" /\ creation_time = 5
    /\ recommended_num_objects = PyNone
    /\ recommended_num_references = PyNone

\* the configuration of a Batch
Configuration(b) ==
    <<b.batch_size, b.batching_type, b.recommended_num_objects,
      b.recommended_num_references, b.creation_time, b.timeout_retries>>

\* C16, as stated: an accepted configure ends in the same configuration
\* (recommended counts included) as the four setters called in the order
\* creation_time, timeout_retries, batch_size, dynamic.
C16_Original ==
    [][ Accepted(ev') =>
          Configuration(Self') = Configuration(ThroughSetters(ev'.arg[1]).b) ]_vars

\* create_objects (create_references) submitted a non-empty container and
\* returned
CreatedObjects ==
    ev'.op = "create_objects" /\ ev'.raised = "none" /\ objects # <<>>
CreatedReferences ==
    ev'.op = "create_references" /\ ev'.raised = "none" /\ references # <<>>

\* C17, as amended: a successful non-empty create_objects /
\* create_references recomputes the recommended count of its own kind in every
\* batching type (None and 'fixed' as well as 'dynamic') and leaves the other
\* kind's count as it was.
C17_CreateRecomputesInEveryType ==
    [][ /\ CreatedObjects =>
              /\ recommended_num_objects' =
                    PyInt((Len(objects) * creation_time) \div ev'.responses[1].elapsed)
              /\ recommended_num_references' = recommended_num_references
              /\ batching_type' = batching_type
        /\ CreatedReferences =>
              /\ recommended_num_references' =
                    PyInt((Len(references) * creation_time) \div ev'.responses[1].elapsed)
              /\ recommended_num_objects' = recommended_num_objects
              /\ batching_type' = batching_type ]_vars

\* create_objects with no batch size set: two objects submitted in 10 s with
\* creation_time 10 set the unset count to 2
C17_Witness ==
    /\ ev.op = "create_objects" /\ ev.raised = "none" /\ Len(ev.posts) = 1
    /\ batching_type = NoBatching
    /\ recommended_num_objects = PyInt(2)
    /\ recommended_num_references = PyNone

\* C17, as stated: a successful create_objects / create_references leaves
\* both recommended counts as they were while batching_type is None or 'fixed'.
C17_Original ==
    [][ ((CreatedObjects \/ CreatedReferences) /\ batching_type # "dynamic") =>
          RecommendedKept ]_vars

\* count is floor(n * target / secs)
IsFloorOf(count, n, target, secs) ==
    /\ count.t = "int"
    /\ count.v * secs <= n * target
    /\ n * target < (count.v + 1) * secs

\* C18: in 'dynamic' batching, after a successful non-empty create_objects
\* (create_references), called directly or by flush, that submitted n items
\* and took e seconds, recommended_num_objects (recommended_num_references)
\* is floor(n * creation_time / e); a direct call leaves the other kind's
\* count as it was.
C18_DynamicRecommendedIsFloor ==
    [][ batching_type = "dynamic" =>
          /\ CreatedObjects =>
                /\ IsFloorOf(recommended_num_objects', Len(objects), creation_time,
                             ev'.responses[1].elapsed)
                /\ recommended_num_references' = recommended_num_references
          /\ CreatedReferences =>
                /\ IsFloorOf(recommended_num_references', Len(references),
                             creation_time, ev'.responses[1].elapsed)
                /\ recommended_num_objects' = recommended_num_objects
          /\ (ev'.op = "flush" /\ ev'.raised = "none") =>
                /\ IF objects # <<>>
                   THEN IsFloorOf(recommended_num_objects', Len(objects),
                                  creation_time, ev'.responses[1].elapsed)
                   ELSE recommended_num_objects' = recommended_num_objects
                /\ IF references # <<>>
                   THEN IsFloorOf(recommended_num_references', Len(references),
                                  creation_time,
                                  ev'.responses[Len(ev'.responses)].elapsed)
                   ELSE recommended_num_references' = recommended_num_references ]_vars

\* two objects submitted in 25 s with creation_time 10: floor(0.8) = 0
C18_Witness ==
    /\ ev.op = "create_objects" /\ ev.raised = "none"
    /\ batching_type = "dynamic"
    /\ Len(ev.posts) = 1 /\ Len(ev.posts[1].weaviate_object.objects) = 2
    /\ ev.responses[1].elapsed = 25
    /\ recommended_num_objects = PyInt(0)

\* the value is not one its setter accepts
InvalidFor(op, value) ==
    CASE op = "batch_size" ->
            value.t # "NoneType" /\ ~(value.t = "int" /\ value.v > 0)
      [] op = "creation_time" ->
            ~(value.t \in {"int", "float"} /\ value.v > 0)
      [] op = "timeout_retries" ->
            ~(value.t = "int" /\ value.v >= 0)
      [] op = "dynamic" -> value.t # "bool"
      [] OTHER -> FALSE

\* C19: an invalid assignment through the batch_size, creation_time or
\* timeout_retries setter, or through the dynamic setter while batching_type
\* is not None, raises TypeError or ValueError and leaves every field of the
\* Batch as it was, with no auto-flush check, no flush and no post.
C19_InvalidAssignmentChangesNothing ==
    [][ ( /\ ev'.arg # <<>> /\ InvalidFor(ev'.op, ev'.arg[1])
          /\ ev'.op = "dynamic" => batching_type # NoBatching ) =>
          /\ Rejected(ev')
          /\ Self' = Self
          /\ ev'.auto = <<>> /\ ev'.flushes = 0 /\ ev'.posts = <<>> ]_vars

\* dynamic = 0 rejected in 'dynamic' batching after creation_time was changed
C19_Witness ==
    /\ ev.op = "dynamic" /\ ev.arg = <<PyInt(0)>> /\ ev.raised = "TypeError"
    /\ batching_type = "dynamic" /\ creation_time = 5
    /\ timeout_retries = 1

\* the validation outcome the fields are documented with
Outcome(field, value) ==
    CASE field = "batch_size" ->
            IF value.t = "NoneType" THEN "ok"
            ELSE IF value.t # "int" THEN "TypeError"
            ELSE IF value.v <= 0 THEN "ValueError" ELSE "ok"
      [] field = "creation_time" ->
            IF value.t \notin {"int", "float"} THEN "TypeError"
            ELSE IF value.v <= 0 THEN "ValueError" ELSE "ok"
      [] field = "timeout_retries" ->
            IF value.t # "int" THEN "TypeError"
            ELSE IF value.v < 0 THEN "ValueError" ELSE "ok"
      [] field = "dynamic" ->
            IF value.t # "bool" THEN "TypeError" ELSE "ok"

\* the call ended as the validation outcome says
EndedAs(e, outcome) ==
    IF outcome = "ok" THEN ~Rejected(e) ELSE e.raised = outcome

Setters == {"batch_size", "creation_time", "timeout_retries", "dynamic"}

\* a setter call ends as the validation outcome of its value says
SetterValidates ==
    (ev'.op \in Setters \ {"dynamic"}) => EndedAs(ev', Outcome(ev'.op, ev'.arg[1]))

\* a configure call with one invalid argument ends as the validation outcome
\* of that argument says, one with none is accepted (dynamic is looked at when
\* batch_size is a valid int)
ConfigureValidates ==
    (ev'.op = "configure" /\ ev'.arg # <<>>) =>
        LET a == ev'.arg[1]
            first == {f \in {"batch_size", "creation_time", "timeout_retries"} :
                         Outcome(f, a[f]) # "ok"}
        IN  /\ \A f \in first : ev'.raised = Outcome(f, a[f])
            /\ (first = {} /\ a.batch_size.t = "int") =>
                  EndedAs(ev', Outcome("dynamic", a.dynamic))
            /\ (first = {} /\ Outcome("dynamic", a.dynamic) = "ok") => ~Rejected(ev')

\* C20, as amended: validation per field, identical through the setter and
\* through configure: batch_size accepts None or an int > 0 (TypeError for a
\* bool, a float or another non-int, ValueError for <= 0); creation_time a
\* real > 0 (TypeError for a bool or a non-number, ValueError for <= 0);
\* timeout_retries an int >= 0 (TypeError for a bool or a non-int, ValueError
\* for < 0); dynamic only a bool (TypeError otherwise, the int 0 included)
\* wherever it is looked at: through the setter while batching_type is not
\* None (while it is None the setter does nothing and raises nothing, whatever
\* the value) and through configure with a batch_size that is not None.
C20_ValidationPerField ==
    [][ /\ SetterValidates
        /\ ConfigureValidates
        /\ ev'.op = "dynamic" =>
              IF batching_type = NoBatching
              THEN ev'.raised = "none" /\ Self' = Self
              ELSE EndedAs(ev', Outcome("dynamic", ev'.arg[1])) ]_vars

\* configure(batch_size = 2, dynamic = 0) rejected with TypeError
C20_Witness ==
    /\ ev.op = "configure" /\ ev.arg # <<>> /\ ev.raised = "TypeError"
    /\ ev.arg[1].batch_size = PyInt(2) /\ ev.arg[1].dynamic = PyInt(0)
    /\ Outcome("creation_time", ev.arg[1].creation_time) = "ok"
    /\ Outcome("timeout_retries", ev.arg[1].timeout_retries) = "ok"

\* C20, as stated: the dynamic setter raises TypeError for a value that is
\* not a bool in every batching type, None included.
C20_Original ==
    [][ ev'.op = "dynamic" => EndedAs(ev', Outcome("dynamic", ev'.arg[1])) ]_vars

\* the flush condition on what a run of the check saw
FullSeen(c) ==
    IF c.batching_type = "fixed"
    THEN c.num_objects + c.num_references >= c.batch_size.v
    ELSE \/ c.num_objects >= c.recommended_num_objects.v
         \/ c.num_references >= c.recommended_num_references.v

\* the call is a change of configuration that passed validation
Reconfigured(e) ==
    /\ e.op \in {"batch_size", "dynamic", "creation_time", "configure"}
    /\ e.raised \notin {"TypeError", "ValueError"}

\* C21: a change of configuration that ends with batch_size not None (the
\* batch_size setter with an int, the dynamic and creation_time setters while
\* batching, configure with an int batch_size) runs the auto-flush check once,
\* on the new configuration and the items buffered before the call, and
\* flushes inside the call exactly when they meet the flush condition; a
\* change that ends with batch_size None runs no check and no flush.
C21_ReconfigurationChecks ==
    [][ Reconfigured(ev') =>
          IF batching_type' = NoBatching
          THEN batch_size' = PyNone /\ ev'.auto = <<>> /\ ev'.flushes = 0
          ELSE /\ batch_size'.t = "int"
               /\ Len(ev'.auto) = 1
               /\ ev'.auto[1].batching_type = batching_type'
               /\ ev'.auto[1].batch_size = batch_size'
               /\ ev'.auto[1].num_objects = Len(objects)
               /\ ev'.auto[1].num_references = Len(references)
               /\ ev'.flushes = (IF FullSeen(ev'.auto[1]) THEN 1 ELSE 0) ]_vars

\* one object held under recommended counts of 2; creation_time 10 -> 5
\* halves them and the setter flushes
C21_Witness ==
    /\ ev.op = "creation_time" /\ ev.arg = <<PyFloat(5)>>
    /\ ev.auto # <<>> /\ ev.auto[1].batching_type = "dynamic"
    /\ ev.auto[1].num_objects = 1 /\ ev.auto[1].recommended_num_objects = PyInt(1)
    /\ ev.flushes = 1 /\ ev.posts # <<>>

\* a run of the auto-flush check of the call saw batching_type None
CheckedWithoutBatching(e) ==
    \E i \in 1..Len(e.auto) : e.auto[i].batching_type = NoBatching

\* C22: the auto-flush check run with batching_type None raises ValueError
\* ('Unsupported batching type') and changes nothing; no add_data_object,
\* add_reference, configure or setter call runs the check while batching_type
\* is None or ends in that error: only a direct call of _auto_create does.
C22_UnsupportedTypeUnreachable ==
    [][ /\ (ev'.op = "_auto_create" /\ batching_type = NoBatching) =>
              /\ ev'.raised = "ValueError" /\ ev'.msg = "Unsupported batching type"
              /\ ev'.flushes = 0 /\ ev'.posts = <<>> /\ Self' = Self
        /\ ev'.op # "_auto_create" =>
              /\ ~CheckedWithoutBatching(ev')
              /\ ev'.msg # "Unsupported batching type" ]_vars

\* _auto_create called on a batch that holds an object and has no batch_size
C22_Witness ==
    /\ ev.op = "_auto_create" /\ ev.raised = "ValueError"
    /\ ev.msg = "Unsupported batching type"
    /\ batching_type = NoBatching /\ Len(objects) = 1 /\ creation_time = 5

\* what create_objects / create_references returns for a container
ResultOf(items) == IF items = <<>> THEN PyList(<<>>) ELSE PyJson(items)

\* C23: a flush that returns has called create_objects and then
\* create_references, each once, whatever the containers hold; with a callback
\* configured the callback was invoked exactly twice, with the objects result
\* and then the references result (the empty list for an empty container);
\* with no callback nothing was invoked.  A flush that raises has called them
\* in that order up to the one that raised, and has invoked nothing.
C23_FlushCallsBothThenCallback ==
    [][ ev'.op = "flush" =>
          /\ ev'.flushes = 1
          /\ IF ev'.raised = "none"
             THEN /\ ev'.calls = <<"create_objects", "create_references">>
                  /\ ev'.results = <<ResultOf(objects), ResultOf(references)>>
                  /\ ev'.cb = (IF callback = PyNone THEN <<>> ELSE ev'.results)
             ELSE /\ ev'.calls \in {<<"create_objects">>,
                                     <<"create_objects", "create_references">>}
                  /\ ev'.cb = <<>> ]_vars

\* a flush of one reference and no object, with a callback: called with []
\* and then with the references result
C23_Witness ==
    /\ ev.op = "flush" /\ ev.raised = "none" /\ callback = PyFunction
    /\ Len(ev.cb) = 2 /\ ev.cb[1] = PyList(<<>>) /\ ev.cb[2].t = "json"
    /\ Len(ev.posts) = 1

\* C24, as stated: a recommended count that is set is a positive integer,
\* after any changes of batch_size, dynamic and creation_time and any
\* successful submissions.
C24_RecommendedPositive ==
    /\ recommended_num_objects.t = "int" => recommended_num_objects.v >= 1
    /\ recommended_num_references.t = "int" => recommended_num_references.v >= 1

\* the items enqueued that are neither in the container nor at the server
Lost == {i \in 1..(next_id - 1) : i \notin Items(objects) /\ i \notin callers.sent}

\* caller c takes the clearing step of create_objects
Clears(c) == callers.pc[c] = "clear" /\ callers'.pc[c] = "idle"

\* C25: on an instance shared by two callers, enqueue, check and flush are
\* not one step: the clearing step of a caller empties the container whatever
\* it holds by then, so an item another caller appended after the submission
\* is removed without ever being submitted; items are lost in no other way.
C25_ClearingDropsLateItems ==
    [][ /\ \A c \in Callers : Clears(c) =>
              /\ objects' = <<>>
              /\ Lost' = Lost \cup (Items(objects) \ callers.sent)
        /\ Lost' # Lost => \E c \in Callers :
              /\ Clears(c)
              /\ (Lost' \ Lost) \cap Items(callers.body[c]) = {} ]_vars

\* item 2 was appended between the submission of item 1 and the clearing
C25_Witness ==
    /\ Lost = {2} /\ callers.sent = {1} /\ objects = <<>>
    /\ \A c \in Callers : callers.pc[c] = "idle"

\* the body's error[0].message contains 'already exists'
SaysAlreadyExists(body) ==
    /\ body.is_json /\ body.has_error /\ body.error # <<>>
    /\ body.error[1].has_message
    /\ ContainsAlreadyExists(body.error[1].message)

\* C26, as stated: DataObject.create makes exactly one POST to /objects and
\* maps its outcome: 200 gives str of the body's id; a connection error
\* RequestsConnectionError('Object was not added to Weaviate.'); a non-200
\* whose error[0].message contains 'already exists'
\* ObjectAlreadyExistsException; any other non-200
\* UnexpectedStatusCodeException('Creating object').  A class_name that is no
\* str raises TypeError before any request and any conversion.
C26_CreateOutcomes ==
    [][ ev'.op = "create" =>
          LET a == ev'.arg[1]
              out == ev'.responses[1]
          IN  IF a.class_name.t # "str"
              THEN ev'.raised = "TypeError" /\ ev'.posts = <<>> /\ ev'.calls = <<>>
              ELSE /\ Len(ev'.posts) = 1 /\ ev'.posts[1].path = "/objects"
                   /\ IF out.kind = "ConnectionError"
                      THEN /\ ev'.raised = "RequestsConnectionError"
                           /\ ev'.msg = "Object was not added to Weaviate."
                      ELSE IF out.status_code = 200
                      THEN out.body.id # <<>> =>
                              ev'.raised = "none" /\ ev'.ret = StrOf(out.body.id[1])
                      ELSE IF SaysAlreadyExists(out.body)
                      THEN ev'.raised = "ObjectAlreadyExistsException"
                      ELSE /\ ev'.raised = "UnexpectedStatusCodeException"
                           /\ ev'.msg = "Creating object" ]_vars

\* C27: DataObject.get, once its request is made: status 200 returns the
\* response body (response.json()); status 404 returns None only when a uuid
\* was given; every other response, a 404 without uuid included, raises
\* UnexpectedStatusCodeException('Get object/s'); a connection error raises
\* RequestsConnectionError('Could not get object/s.').
C27_GetOutcomes ==
    [][ (ev'.op = "get" /\ ev'.gets # <<>>) =>
          LET a == ev'.arg[1]
              out == ev'.responses[1]
          IN  /\ Len(ev'.gets) = 1
              /\ IF out.kind = "ConnectionError"
                 THEN /\ ev'.raised = "RequestsConnectionError"
                      /\ ev'.msg = "Could not get object/s."
                 ELSE IF out.status_code = 200
                 THEN out.body.is_json =>
                         ev'.raised = "none" /\ ev'.ret = [t |-> "json", v |-> out.body]
                 ELSE IF out.status_code = 404 /\ a.uuid.t # "NoneType"
                 THEN ev'.raised = "none" /\ ev'.ret = PyNone
                 ELSE /\ ev'.raised = "UnexpectedStatusCodeException"
                      /\ ev'.msg = "Get object/s" ]_vars

\* get() without uuid answered 404: raised, not None
C27_Witness ==
    /\ ev.op = "get" /\ ev.gets # <<>> /\ ev.arg[1].uuid = PyNone
    /\ ev.gets[1].path = <<"/objects">>
    /\ ev.responses[1].status_code = 404
    /\ ev.raised = "UnexpectedStatusCodeException"

\* C28, as stated: DataObject.exists returns True on status 200 and False on
\* status 404, raises UnexpectedStatusCodeException on any other status,
\* raises TypeError when uuid is not a str and ValueError when uuid is a str
\* that is no properly formed UUID.
C28_ExistsOutcomes ==
    [][ ev'.op = "exists" =>
          LET uuid == ev'.arg[1]
              out == ev'.responses[1]
          IN  IF uuid.t # "str" THEN ev'.raised = "TypeError"
              ELSE IF uuid # WellFormedUuid THEN ev'.raised = "ValueError"
              ELSE out.kind = "response" =>
                     IF out.status_code = 200
                     THEN ev'.raised = "none" /\ ev'.ret = PyBool(TRUE)
                     ELSE IF out.status_code = 404
                     THEN ev'.raised = "none" /\ ev'.ret = PyBool(FALSE)
                     ELSE ev'.raised = "UnexpectedStatusCodeException" ]_vars

\* the calls of one method in the history, in the order made
CallsOf(op) == SelectSeq(builder.history, LAMBDA c : c.op = op)

\* the argument of the last call of a method
LastArg(op) == CallsOf(op)[Len(CallsOf(op))].arg

RECURSIVE FieldsAdded(_)
FieldsAdded(calls) ==
    IF calls = <<>> THEN <<>> ELSE Head(calls).arg \o FieldsAdded(Tail(calls))

\* the query the calls made so far ask for
ExpectedQuery ==
    <<"{Aggregate{", "Object">>
    \o (IF CallsOf("with_where") # <<>> \/ CallsOf("with_group_by_filter") # <<>>
        THEN <<"(">>
             \o (IF CallsOf("with_where") # <<>>
                 THEN <<"where: {">> \o LastArg("with_where") \o <<"} ">> ELSE <<>>)
             \o (IF CallsOf("with_group_by_filter") # <<>>
                 THEN <<"groupBy: ", "[">> \o LastArg("with_group_by_filter") \o <<"]">>
                 ELSE <<>>)
             \o <<")">>
        ELSE <<>>)
    \o <<"{">>
    \o (IF CallsOf("with_meta_count") # <<>> THEN <<"meta{count}">> ELSE <<>>)
    \o FieldsAdded(CallsOf("with_fields"))
    \o <<"}}}">>

\* C29: after any sequence of with_meta_count / with_fields / with_where /
\* with_group_by_filter calls, build returns '{Aggregate{<class>' + filter +
\* '{' + body + '}}}': the parenthesised filter is there exactly when
\* with_where or with_group_by_filter was called, with the where clause
\* before groupBy whatever the order of the calls; the body is 'meta{count}'
\* if asked for, then every field in the order added; build changes no field
\* of the builder, so a second build returns the same text.
C29_BuildQuery ==
    [][ ev'.op = "build" =>
          /\ ev'.ret = [t |-> "str", v |-> ExpectedQuery]
          /\ builder' = builder ]_vars

\* group-by set before where, two fields and the count: where comes first
C29_Witness ==
    /\ ev.op = "build" /\ Len(builder.history) = 4
    /\ builder.history[1].op = "with_group_by_filter" /\ builder.history[1].arg = <<>>
    /\ builder.history[2].op = "with_where"
    /\ builder.history[3].op = "with_fields"
    /\ builder.history[4].op = "with_meta_count"
    /\ ev.ret.v[3] = "(" /\ ev.ret.v[4] = "where: {" /\ ev.ret.v[7] = "groupBy: "

\* the script starts with k - 1 read timeouts and answers 200 at attempt k
SucceedsAt(script, k) ==
    /\ \A i \in 1..(k - 1) : script[i].kind = "ReadTimeout"
    /\ script[k].kind = "response" /\ script[k].status_code = 200

\* C30: in the wire submission, when the first k - 1 attempts end in a read
\* timeout and attempt k <= timeout_retries + 1 is answered 200, the call
\* returns that response after exactly k posts, all with the same path and
\* body, and posts nothing more; when the first attempt is no read timeout
\* exactly one post is made, whatever timeout_retries is.
C30_RetryThenSuccess ==
    ev.op = "_create_data" =>
        /\ \A k \in 1..(timeout_retries + 1) :
              SucceedsAt(ev.script, k) =>
                 /\ Len(ev.posts) = k
                 /\ ev.raised = "none"
                 /\ ev.ret = [t |-> "response", v |-> ev.script[k]]
                 /\ \A i \in 1..Len(ev.posts) :
                       ev.posts[i] = [path |-> Path(ev.data_type),
                                      weaviate_object |->
                                          get_request_body(ev.data_type, <<>>)]
        /\ ev.script[1].kind # "ReadTimeout" => Len(ev.posts) = 1

\* three read timeouts and then 200 with timeout_retries = 3: four posts
C30_Witness ==
    /\ ev.op = "_create_data" /\ timeout_retries = 3
    /\ SucceedsAt(ev.script, 4)
    /\ Len(ev.posts) = 4 /\ ev.raised = "none" /\ ev.ret.t = "response"

\* the call returned the JSON body of the answer to its last post, which
\* holds the items posted
ReturnedJsonOf(e, items) ==
    /\ e.posts # <<>> /\ e.posts[Len(e.posts)].weaviate_object.objects = items
    /\ e.responses # <<>> /\ e.responses[Len(e.responses)].status_code = 200
    /\ e.ret.t = "json" /\ e.ret.v = items

\* C31: after a successful create_objects / create_references on a container
\* that holds items, that container is empty, the other container is
\* untouched, and the value returned is the parsed JSON body of the response.
C31_CreateClearsAndReturnsJson ==
    [][ /\ (ev'.op = "create_objects" /\ objects # <<>> /\ ev'.raised = "none") =>
              /\ objects' = <<>> /\ references' = references
              /\ ReturnedJsonOf(ev', objects)
        /\ (ev'.op = "create_references" /\ references # <<>> /\ ev'.raised = "none") =>
              /\ references' = <<>> /\ objects' = objects
              /\ ReturnedJsonOf(ev', references) ]_vars

\* create_objects submitted object 1 and left reference 2 where it was
C31_Witness ==
    /\ ev.op = "create_objects" /\ ev.raised = "none"
    /\ ev.ret.t = "json" /\ ev.ret.v = <<1>>
    /\ objects = <<>> /\ references = <<2>>

\* the sequence without its element at position p (from 1)
Without(items, p) == [j \in 1..(Len(items) - 1) |-> IF j < p THEN items[j] ELSE items[j + 1]]

\* the position (from 1) a pop index stands for in a container of n items,
\* 0 when it stands for none
PositionOf(index, n) ==
    IF index >= 0 /\ index < n THEN index + 1
    ELSE IF index < 0 /\ index >= 0 - n THEN n + index + 1
    ELSE 0

\* a pop on `items` that became `items_after`
PoppedFrom(e, items, items_after) ==
    LET index == IF e.arg[1] = <<>> THEN 0 - 1 ELSE e.arg[1][1]
        p == PositionOf(index, Len(items))
    IN  IF p = 0
        THEN e.raised = "IndexError" /\ items_after = items
        ELSE /\ e.raised = "none"
             /\ e.ret = PyItem(items[p])
             /\ items_after = Without(items, p)

\* the configuration of the batch
Settings ==
    <<batch_size, batching_type, recommended_num_objects, recommended_num_references,
      creation_time, timeout_retries, callback>>

\* C32: pop_object(index) / pop_reference(index) remove and return exactly
\* the item at that index of their own container (-1, the most recently
\* added, when no index is given; a negative index counts from the end), keep
\* the order of the items that remain, leave the other container and the
\* configuration unchanged, and raise an index error that leaves the
\* container unchanged when it is empty or the index is out of range.
C32_PopRemovesItemAtIndex ==
    [][ /\ ev'.op = "pop_object" =>
              /\ PoppedFrom(ev', objects, objects')
              /\ references' = references /\ Settings' = Settings
              /\ ev'.posts = <<>> /\ ev'.auto = <<>>
        /\ ev'.op = "pop_reference" =>
              /\ PoppedFrom(ev', references, references')
              /\ objects' = objects /\ Settings' = Settings
              /\ ev'.posts = <<>> /\ ev'.auto = <<>> ]_vars

\* pop_object(-2) on objects 1 and 2 in 'dynamic' batching: 1 leaves, 2 stays
C32_Witness ==
    /\ ev.op = "pop_object" /\ ev.arg = <<(<<0 - 2>>)>> /\ ev.raised = "none"
    /\ ev.ret = PyItem(1) /\ objects = <<2>> /\ batching_type = "dynamic"

\* a submission gave up on read timeouts and the call raised the ReadTimeout
GaveUp == ev.raised = "ReadTimeout" /\ ev.posts # <<>>

\* the request of the last post
LastPost == ev.posts[Len(ev.posts)]

\* C33 (as stated): the timeout error raised after the retry budget is
\* exhausted reports the connection's read timeout (timeout_config[1]), the
\* controller's current batch_size, and the current creation_time.
C33_ReportsBatchSize ==
    GaveUp =>
        /\ ev.report.timeout = timeout_config[2]
        /\ batch_size.t = "int" /\ ev.report.size = batch_size.v
        /\ ev.report.target = creation_time

\* C33 (amended): the timeout error reports the connection's read timeout
\* (timeout_config[1]), the number of items in the batch request that was
\* being submitted, whatever batch_size is, and 10 as the target duration,
\* creation_time being at its default of 10.
C33_ReportsRequestSize ==
    GaveUp =>
        /\ ev.report.timeout = timeout_config[2]
        /\ ev.report.size = Len(LastPost.weaviate_object.objects)
        /\ creation_time = 10 => ev.report.target = 10

\* a flush of one object and one reference with batch_size 2 times out: the
\* request held one item
C33_Witness ==
    /\ GaveUp /\ batch_size = PyInt(2) /\ Len(objects) = 1
    /\ ev.report = [timeout |-> 100, size |-> 1, target |-> 10]

\* the places <<batch, position>> at which item i was delivered with a 200
DeliveriesOf(i) ==
    {p \in (1..Len(log.delivered)) \X (1..MaxItems) :
        /\ p[2] <= Len(log.delivered[p[1]].items)
        /\ log.delivered[p[1]].items[p[2]] = i}

\* the places at which item i sits in a container
PlacesOf(i) ==
    {p \in 1..Len(objects) : objects[p] = i} \cup
    {Len(objects) + p : p \in {q \in 1..Len(references) : references[q] = i}}

RECURSIVE DeliveredOfKind(_, _)
\* the items of one kind delivered with a 200, batch after batch
DeliveredOfKind(batches, data_type) ==
    IF batches = <<>> THEN <<>>
    ELSE (IF Head(batches).data_type = data_type THEN Head(batches).items ELSE <<>>)
            \o DeliveredOfKind(Tail(batches), data_type)

\* ids are given in the order of the enqueues
InOrderEnqueued(items) == \A i, j \in 1..Len(items) : i < j => items[i] < items[j]

\* C34: with one caller and any network outcomes, every item enqueued and not
\* taken back with pop_* / empty_* is at every point either still in its
\* container or was part of exactly one submission answered 200 (never lost,
\* never in two such submissions), and the items of one kind are submitted in
\* the order they were enqueued, within a batch and across batches.
C34_NoLossNoDuplicateInOrder ==
    /\ \A i \in (1..(next_id - 1)) \ log.removed :
          Cardinality(PlacesOf(i)) + Cardinality(DeliveriesOf(i)) = 1
    /\ InOrderEnqueued(DeliveredOfKind(log.delivered, "objects"))
    /\ InOrderEnqueued(DeliveredOfKind(log.delivered, "references"))
    /\ InOrderEnqueued(objects) /\ InOrderEnqueued(references)

\* two references delivered in two batches after a failed submission of the
\* first, nothing left in the containers
C34_Witness ==
    /\ log.delivered = <<[data_type |-> "references", items |-> <<1>>],
                         [data_type |-> "references", items |-> <<2>>]>>
    /\ log.removed = {} /\ objects = <<>> /\ references = <<>>

\* C35: in 'fixed' batching, whenever add_data_object, add_reference or a
\* batch_size assignment returns without raising, each container holds fewer
\* than batch_size items: the buffer does not stay at or above the threshold
\* between calls.
C35_BelowThresholdAfterCall ==
    ( /\ batching_type = "fixed"
      /\ ev.op \in {"add_data_object", "add_reference", "batch_size"}
      /\ ev.raised = "none" ) =>
        /\ Len(objects) < batch_size.v
        /\ Len(references) < batch_size.v

\* batch_size = 1 assigned with two objects buffered: they were submitted,
\* and the assignment returned with the containers empty
C35_Witness ==
    /\ batching_type = "fixed" /\ ev.op = "batch_size" /\ ev.raised = "none"
    /\ batch_size = PyInt(1)
    /\ ev.auto # <<>> /\ ev.auto[1].num_objects = 2
    /\ Len(ev.posts) = 1 /\ objects = <<>> /\ references = <<>>

\* the call posted, and no batch of the kind was answered 200
SubmissionFailed(e, data_type) ==
    /\ e.posts # <<>>
    /\ \A k \in 1..Len(e.delivered) : e.delivered[k].data_type # data_type

\* the exceptions a submission ends in
SubmissionErrors ==
    {"ReadTimeout", "RequestsConnectionError", "UnexpectedStatusCodeException"}

\* the container of a kind as a call finds it, the item of an add included
Found(e, data_type) ==
    IF data_type = "objects"
    THEN (IF e.op = "add_data_object" THEN Append(objects, next_id) ELSE objects)
    ELSE (IF e.op = "add_reference" THEN Append(references, next_id) ELSE references)

\* C36: when add_data_object / add_reference triggers an auto-flush and the
\* submission of the item's kind fails, the error leaves the add call and the
\* item just added stays in its container behind the earlier items (the append
\* is not rolled back); every later call that submits the kind posts the
\* whole container, that item and the earlier ones together.
C36_FailedAutoFlushKeepsItem ==
    [][ /\ (ev'.op = "add_data_object" /\ SubmissionFailed(ev', "objects")) =>
              /\ ev'.raised \in SubmissionErrors
              /\ objects' = Append(objects, next_id)
        /\ (ev'.op = "add_reference" /\ SubmissionFailed(ev', "references")) =>
              /\ ev'.raised \in SubmissionErrors
              /\ references' = Append(references, next_id)
        /\ \A k \in 1..Len(ev'.posts) :
              ev'.posts[k].weaviate_object.objects =
                  Found(ev', IF ev'.posts[k].path = "/batch/objects"
                             THEN "objects" ELSE "references") ]_vars

\* the second add_data_object with batch_size 2: the flush was answered 204,
\* both objects are still buffered
C36_Witness ==
    /\ ev.op = "add_data_object" /\ ev.raised = "UnexpectedStatusCodeException"
    /\ batching_type = "fixed" /\ batch_size = PyInt(2)
    /\ ev.flushes = 1 /\ Len(ev.posts) = 1 /\ objects = <<1, 2>>

\* a batch of the kind was answered 200 in the call
Delivered(e, data_type) ==
    \E k \in 1..Len(e.delivered) : e.delivered[k].data_type = data_type

\* the paths the call posted to
PathsOf(e) == {e.posts[k].path : k \in 1..Len(e.posts)}

\* C37: in a flush, when create_objects succeeds and create_references then
\* fails, the objects container is empty, the references container is as it
\* was, the error leaves flush and the callback is invoked for neither kind;
\* when create_objects fails, create_references is not attempted and both
\* containers are as they were.
C37_PartialFlushFailure ==
    [][ ev'.op = "flush" =>
          /\ (references # <<>> /\ (objects = <<>> \/ Delivered(ev', "objects"))
                  /\ ~Delivered(ev', "references")) =>
                /\ ev'.raised \in SubmissionErrors
                /\ ev'.calls = <<"create_objects", "create_references">>
                /\ objects' = <<>> /\ references' = references
                /\ ev'.cb = <<>>
          /\ (objects # <<>> /\ ~Delivered(ev', "objects")) =>
                /\ ev'.raised \in SubmissionErrors
                /\ ev'.calls = <<"create_objects">>
                /\ PathsOf(ev') = {"/batch/objects"}
                /\ objects' = objects /\ references' = references
                /\ ev'.cb = <<>> ]_vars

\* a flush of one object and one reference with a callback set: the objects
\* were answered 200, the references timed out
C37_Witness ==
    /\ ev.op = "flush" /\ ev.raised = "ReadTimeout" /\ callback.t # "NoneType"
    /\ Len(ev.posts) = 2 /\ Len(ev.delivered) = 1
    /\ objects = <<>> /\ Len(references) = 1 /\ ev.cb = <<>>

\* an argument of configure that validation looks at is invalid (dynamic is
\* looked at when batch_size is an int)
InvalidConfigure(a) ==
    \/ \E f \in {"batch_size", "creation_time", "timeout_retries"} : Outcome(f, a[f]) # "ok"
    \/ a.batch_size.t = "int" /\ Outcome("dynamic", a.dynamic) # "ok"

AnsweredNon200Json(e) ==
    /\ e.op = "create" /\ e.posts # <<>> /\ e.responses # <<>>
    /\ e.responses[1].kind = "response"
    /\ e.responses[1].status_code # 200
    /\ e.responses[1].body.is_json

\* C39: for every response other than 200, whatever the shape of its JSON
\* body (no 'error' key, an empty 'error' list, an 'error' that is no list,
\* an entry without 'message'), DataObject.create ends in
\* ObjectAlreadyExistsException or in UnexpectedStatusCodeException, never
\* in an exception of another type.
C39_Non200RaisesOneOfTwo ==
    AnsweredNon200Json(ev) =>
        ev.raised \in {"ObjectAlreadyExistsException", "UnexpectedStatusCodeException"}

====
